---- MODULE Spec2Model ----
(***************************************************************************)
(* Model of the aemet-client aggregation pipeline:                         *)
(*   - createIncrementalAnalyzer (utils/dataAnalyzer.js): processRecord    *)
(*     and getResults, instantiated monthly and yearly;                    *)
(*   - deduplicarPorFecha (utils/dataProcessor.js);                        *)
(*   - procesarEstacion (main.js): the range loop that deduplicates on the *)
(*     fly with seenDates and feeds both analyzers;                        *)
(*   - getAstronomicalSeason (utils/dataProcessor.js);                     *)
(*   - analyzeSummerData (utils/summerAnalysis.js) with                    *)
(*     calculateHeatwaveMetrics, calculateLongerSummer and                 *)
(*     calculateThresholds (utils/analysis);                               *)
(*   - obtenerDatosParaRango (services/aemetApi.js): the retry loop;       *)
(*   - _analizarDatosAgrupados (utils/dataAnalyzer.js): the batch analysis;*)
(*   - generarRangosDePeticion (utils/dateUtils.js).                       *)
(*                                                                         *)
(* Conventions.  A nullable number is a sequence: <<>> is null, <<v>> is   *)
(* the number v.  Averages are kept in hundredths (round to 2 decimals).   *)
(* A string produced by date-fns format() is the sequence of its character *)
(* codes.  A JS Map is the sequence of its entries in insertion order.     *)
(***************************************************************************)
EXTENDS Integers, Sequences, FiniteSets, TLC

VARIABLES
  analizadorMensual,    \* main.js:42  state Map of the 'yyyy-MM' analyzer
  analizadorAnual,      \* main.js:43  state Map of the 'yyyy' analyzer
  fed,                  \* history: records passed to processRecord, in order
  resultadosMensuales,  \* main.js:118 last output of analizadorMensual.getResults()
  resultadosAnuales,    \* main.js:122 last output of analizadorAnual.getResults()
  nGet,                 \* history: getResults rounds since the last processRecord
  datos,                \* dataProcessor: argument of deduplicarPorFecha
  datosUnicos,          \* dataProcessor: value returned by deduplicarPorFecha
  pc,                   \* main.js: position of procesarEstacion
  nRangos,              \* main.js:30  rangos.length
  i,                    \* main.js:51  index of the range loop
  seenDates,            \* main.js:44  Set of timestamps already processed
  recordCount,          \* main.js:45
  streamDiario,         \* main.js:40  records written to the daily CSV stream
  errores,              \* main.js:29  list of failed ranges
  ultimoEntregado,      \* history: per date, the record delivered last by the API
  archivos,             \* files written by procesarEstacion
  groupByFn,            \* dataAnalyzer.js:125 groupByFn of a generic analyzer
  analizador,           \* dataAnalyzer.js:126 state Map of that analyzer
  allRecords,           \* summer.js: records handed to a summer analysis
  summerResults,        \* summer.js: value returned by that analysis
  apiPc,                \* aemetApi.js: position of obtenerDatosParaRango
  intento,              \* aemetApi.js:12 loop index i
  historial,            \* history: outcome of every attempt and every sleep
  fechaInicioTotal,     \* dateUtils.js:7 first argument of generarRangosDePeticion
  fechaFinTotal,        \* dateUtils.js:7 second argument
  rangos,               \* dateUtils.js:18 value returned by generarRangosDePeticion
  dailyData,            \* dataAnalyzer.js:37 array given to the batch analysis
  analisisLote          \* dataAnalyzer.js:87 values returned by the batch analysis

vars == <<analizadorMensual, analizadorAnual, fed, resultadosMensuales,
          resultadosAnuales, nGet, datos, datosUnicos, pc, nRangos, i,
          seenDates, recordCount, streamDiario, errores, ultimoEntregado, archivos,
          groupByFn, analizador, allRecords, summerResults,
          apiPc, intento, historial, fechaInicioTotal, fechaFinTotal, rangos,
          dailyData, analisisLote>>

analyzerVars == <<analizadorMensual, analizadorAnual, fed, resultadosMensuales,
                  resultadosAnuales, nGet>>
dedupVars == <<datos, datosUnicos>>
mainVars == <<pc, nRangos, i, seenDates, recordCount, streamDiario, errores,
             ultimoEntregado, archivos>>
keyFnVars == <<groupByFn, analizador>>
summerVars == <<allRecords, summerResults>>
apiVars == <<apiPc, intento, historial>>
rangoVars == <<fechaInicioTotal, fechaFinTotal, rangos>>
loteVars == <<dailyData, analisisLote>>
extraVars == <<apiVars, rangoVars, loteVars>>

-----------------------------------------------------------------------------
(* Bounds *)

MaxFeed == 3      \* records fed to an analyzer harness
MaxArrivals == 4  \* records fed in the arrival-order harness
MaxGet == 2       \* consecutive getResults rounds in an analyzer harness
MaxDatos == 3     \* length of the array given to deduplicarPorFecha
MaxRangos == 2    \* request windows of one procesarEstacion run
MaxBatch == 2     \* records returned by one request
MaxYearLen == 8   \* records of the first year given to calculateLongerSummer

-----------------------------------------------------------------------------
(* Values *)

Null == <<>>
Num(v) == <<v>>
IsNull(x) == x = Null
Val(x) == x[1]

SumFields == {"tmed", "tmax", "tmin", "prec", "velmedia"}
MaxFields == {"tmed", "tmax", "tmin", "prec", "racha", "velmedia"}
MinFields == {"tmed", "tmax", "tmin", "prec"}
Fields == {"tmed", "tmax", "tmin", "prec", "velmedia", "racha"}

\* Calendar dates of the input records: two years, three months.
Dates == { [y |-> 2019, m |-> 12, d |-> 31],
           [y |-> 2020, m |-> 1,  d |-> 31],
           [y |-> 2020, m |-> 2,  d |-> 1] }

\* Field readings of the input records (normalized: a number or null).
Reading(a, b) == [tmed |-> a, tmax |-> b, tmin |-> a, prec |-> b, velmedia |-> a, racha |-> b]
Readings == { Reading(Null, Null), Reading(Num(2), Null), Reading(Num(0), Num(2)) }

\* Readings the API delivers in a procesarEstacion run.
ApiReadings == { Reading(Num(2), Null), Reading(Num(0), Num(2)) }

MkRecord(dt, rd) ==
  [date |-> dt, tmed |-> rd.tmed, tmax |-> rd.tmax, tmin |-> rd.tmin,
   prec |-> rd.prec, velmedia |-> rd.velmedia, racha |-> rd.racha]

ApiRecords == { MkRecord(dt, rd) : dt \in Dates, rd \in ApiReadings }

Records == { MkRecord(dt, rd) : dt \in Dates, rd \in Readings }

BoundedSeq(S, n) == UNION { [1..k -> S] : k \in 0..n }

-----------------------------------------------------------------------------
(* Dates: Date.getTime(), date-fns format() *)

\* Days since 1970-01-01 of a civil date.
DayNumber(dt) ==
  LET yy  == IF dt.m <= 2 THEN dt.y - 1 ELSE dt.y
      era == yy \div 400
      yoe == yy - era * 400
      mp  == IF dt.m > 2 THEN dt.m - 3 ELSE dt.m + 9
      doy == (153 * mp + 2) \div 5 + dt.d - 1
      doe == yoe * 365 + yoe \div 4 - yoe \div 100 + doy
  IN era * 146097 + doe - 719468

\* date.getTime() of the date's midnight, counted in days (one unit is
\* 86 400 000 ms): the millisecond count does not fit TLC's integers.
GetTime(dt) == DayNumber(dt)

Digit(n) == 48 + n
Digits2(n) == << Digit((n \div 10) % 10), Digit(n % 10) >>
Digits4(n) == << Digit((n \div 1000) % 10), Digit((n \div 100) % 10),
                 Digit((n \div 10) % 10), Digit(n % 10) >>

\* format(d, 'yyyy'), format(d, 'yyyy-MM') and format(d, 'dd/MM/yyyy') as
\* character codes ('-' is 45, '/' is 47, '0' is 48).
FormatYearOf(dt) == Digits4(dt.y)
FormatYearMonthOf(dt) == Digits4(dt.y) \o <<45>> \o Digits2(dt.m)
FormatDayOf(dt) == Digits2(dt.d) \o <<47>> \o Digits2(dt.m) \o <<47>> \o Digits4(dt.y)

\* The same, tabulated once over the dates of the model.
FormatTable == [dt \in Dates |-> [yyyy |-> FormatYearOf(dt),
                                  yyyyMM |-> FormatYearMonthOf(dt),
                                  ddMMyyyy |-> FormatDayOf(dt)]]
FormatYear(dt) == FormatTable[dt].yyyy
FormatYearMonth(dt) == FormatTable[dt].yyyyMM
FormatDay(dt) == FormatTable[dt].ddMMyyyy

\* a.localeCompare(b) < 0 on strings of digits and punctuation
RECURSIVE LocaleLess(_, _)
LocaleLess(a, b) ==
  IF b = <<>> THEN FALSE
  ELSE IF a = <<>> THEN TRUE
  ELSE IF Head(a) # Head(b) THEN Head(a) < Head(b)
  ELSE LocaleLess(Tail(a), Tail(b))

\* groupByFn of the two analyzers
GroupKey(kind, dt) == IF kind = "mensual" THEN FormatYearMonth(dt) ELSE FormatYear(dt)

-----------------------------------------------------------------------------
(* lodash maxBy / minBy over an array of {value, date}, iteratee 'value' *)

\* filterNulls: arr.filter(item => item && item.value !== null)
FilterNulls(arr) == SelectSeq(arr, LAMBDA item : ~IsNull(item.value))

\* baseGt / baseLt
Comparator(mode, value, other) == IF mode = "max" THEN value > other ELSE value < other

\* Index of the element lodash returns (0: undefined, the array is empty).
\* The first element seeds the result; a later one replaces it only when
\* the comparator holds, which is a strict comparison.
RECURSIVE BaseExtremum(_, _, _, _)
BaseExtremum(arr, mode, k, best) ==
  IF k > Len(arr) THEN best
  ELSE IF best = 0 THEN BaseExtremum(arr, mode, k + 1, k)
  ELSE IF Comparator(mode, Val(arr[k].value), Val(arr[best].value))
       THEN BaseExtremum(arr, mode, k + 1, k)
       ELSE BaseExtremum(arr, mode, k + 1, best)

RECURSIVE LastGreatest(_, _, _)
LastGreatest(arr, k, best) ==
  IF k > Len(arr) THEN best
  ELSE IF best = 0 \/ Val(arr[k].value) >= Val(arr[best].value)
       THEN LastGreatest(arr, k + 1, k)
       ELSE LastGreatest(arr, k + 1, best)
MaxByTieLast(arr) == LastGreatest(arr, 1, 0)
MaxBy(arr) == BaseExtremum(arr, "max", 1, 0)
MinBy(arr) == BaseExtremum(arr, "min", 1, 0)

\* maxBy(filterNulls([stored, candidate]), 'value') || stored
UpdateMaxLatest(stored, candidate) ==
  IF ~IsNull(candidate.value) THEN candidate ELSE stored
UpdateMax(stored, candidate) ==
  LET arr == FilterNulls(<<stored, candidate>>)
      k   == MaxBy(arr)
  IN IF k = 0 THEN stored ELSE arr[k]

\* minBy(filterNulls([stored, candidate]), 'value') || stored
UpdateMin(stored, candidate) ==
  LET arr == FilterNulls(<<stored, candidate>>)
      k   == MinBy(arr)
  IN IF k = 0 THEN stored ELSE arr[k]

-----------------------------------------------------------------------------
(* createIncrementalAnalyzer *)

\* state.get(groupKey): index of the entry, 0 when absent
RECURSIVE MapIndex(_, _, _)
MapIndex(state, key, k) ==
  IF k > Len(state) THEN 0
  ELSE IF state[k].key = key THEN k
  ELSE MapIndex(state, key, k + 1)

\* record.f ?? 0
OrZero(x) == IF IsNull(x) THEN 0 ELSE Val(x)

\* First record of a group: the state is only initialized.
NewGroup(record) ==
  [ count |-> 1,
    sum |-> [f \in SumFields |-> OrZero(record[f])],
    max |-> [f \in MaxFields |-> [value |-> record[f], date |-> record.date]],
    min |-> [f \in MinFields |-> [value |-> record[f], date |-> record.date]] ]

\* Later records of a group: the existing state is updated.
UpdateGroup(g, record) ==
  [ count |-> g.count + 1,
    sum |-> [f \in SumFields |->
               IF ~IsNull(record[f]) THEN g.sum[f] + Val(record[f]) ELSE g.sum[f]],
    max |-> [f \in MaxFields |->
               UpdateMax(g.max[f], [value |-> record[f], date |-> record.date])],
    min |-> [f \in MinFields |->
               UpdateMin(g.min[f], [value |-> record[f], date |-> record.date])] ]

\* processRecord without its first statement, if (!groupKey) return
ProcessRecordUnguarded(state, record, groupKey) ==
  LET k == MapIndex(state, groupKey, 1)
  IN IF k = 0
     THEN Append(state, [key |-> groupKey, g |-> NewGroup(record)])
     ELSE [state EXCEPT ![k].g = UpdateGroup(state[k].g, record)]

\* processRecord(record) once groupByFn(record) has given groupKey.  A key is
\* a string; '' (like null and undefined) is falsy and is written <<>>.
ProcessRecordWith(state, record, groupKey) ==
  LET k == MapIndex(state, groupKey, 1)
  IN IF groupKey = <<>> THEN state
     ELSE IF k = 0
          THEN Append(state, [key |-> groupKey, g |-> NewGroup(record)])
          ELSE [state EXCEPT ![k].g = UpdateGroup(state[k].g, record)]

\* processRecord(record) on the state Map of the analyzer of the given kind
ProcessRecord(state, record, kind) ==
  ProcessRecordWith(state, record, GroupKey(kind, record.date))

\* round(sum / count): parseFloat((sum / count).toFixed(2)), in hundredths
Round(sum, count) ==
  LET n == IF sum < 0 THEN -sum ELSE sum
      q == (200 * n + count) \div (2 * count)
  IN Num(IF sum < 0 THEN -q ELSE q)

\* ext?.value ?? null  and  ext?.date ? safeFormat(ext.date, 'dd/MM/yyyy') : null
ExtValue(ext) == ext.value
ExtDate(ext) == Num(FormatDay(ext.date))

ResultRow(entry) ==
  [ fecha |-> entry.key,
    avg   |-> [f \in SumFields |-> Round(entry.g.sum[f], entry.g.count)],
    max   |-> [f \in MaxFields |-> ExtValue(entry.g.max[f])],
    d_max |-> [f \in MaxFields |-> ExtDate(entry.g.max[f])],
    min   |-> [f \in MinFields |-> ExtValue(entry.g.min[f])],
    d_min |-> [f \in MinFields |-> ExtDate(entry.g.min[f])] ]

\* results.sort((a, b) => a.fecha.localeCompare(b.fecha)): stable insertion
RECURSIVE InsertSorted(_, _)
InsertSorted(sorted, row) ==
  IF sorted = <<>> THEN <<row>>
  ELSE IF LocaleLess(row.fecha, Head(sorted).fecha)
       THEN <<row>> \o sorted
       ELSE <<Head(sorted)>> \o InsertSorted(Tail(sorted), row)

RECURSIVE SortFrom(_, _, _)
SortFrom(results, k, acc) ==
  IF k > Len(results) THEN acc
  ELSE SortFrom(results, k + 1, InsertSorted(acc, results[k]))

NoSort(results) == results
SortByFecha(results) == SortFrom(results, 1, <<>>)

\* getResults(): one row per entry of the Map, then sorted by fecha
GetResults(state) == SortByFecha([k \in 1..Len(state) |-> ResultRow(state[k])])

\* What getResults leaves in the state Map: it only reads it.
RECURSIVE InsertEntry(_, _)
InsertEntry(sorted, entry) ==
  IF sorted = <<>> THEN <<entry>>
  ELSE IF LocaleLess(entry.key, Head(sorted).key)
       THEN <<entry>> \o sorted
       ELSE <<Head(sorted)>> \o InsertEntry(Tail(sorted), entry)
RECURSIVE SortEntriesFrom(_, _, _)
SortEntriesFrom(state, k, acc) ==
  IF k > Len(state) THEN acc
  ELSE SortEntriesFrom(state, k + 1, InsertEntry(acc, state[k]))
StateSortedInPlace(state) == SortEntriesFrom(state, 1, <<>>)
StateAfterGetResults(state) == state

-----------------------------------------------------------------------------
(* deduplicarPorFecha *)

\* new Date(r.fecha).getTime()
FechaTime(r) == GetTime(r.date)

\* Map.prototype.set: an existing key keeps its position and takes the new
\* value; a new key is appended.
RECURSIVE MapSet(_, _, _)
MapSet(m, key, value) ==
  IF m = <<>> THEN << [key |-> key, value |-> value] >>
  ELSE IF Head(m).key = key THEN << [key |-> key, value |-> value] >> \o Tail(m)
  ELSE << Head(m) >> \o MapSet(Tail(m), key, value)

\* new Map(datos.map(r => [new Date(r.fecha).getTime(), r]))
RECURSIVE MapFrom(_, _, _)
MapFrom(arr, k, m) ==
  IF k > Len(arr) THEN m
  ELSE MapFrom(arr, k + 1, MapSet(m, FechaTime(arr[k]), arr[k]))

\* datosUnicos.sort((a, b) => new Date(a.fecha) - new Date(b.fecha))
RECURSIVE InsertByFecha(_, _)
InsertByFecha(sorted, r) ==
  IF sorted = <<>> THEN <<r>>
  ELSE IF FechaTime(r) < FechaTime(Head(sorted))
       THEN <<r>> \o sorted
       ELSE <<Head(sorted)>> \o InsertByFecha(Tail(sorted), r)

RECURSIVE SortFechaFrom(_, _, _)
SortFechaFrom(arr, k, acc) ==
  IF k > Len(arr) THEN acc
  ELSE SortFechaFrom(arr, k + 1, InsertByFecha(acc, arr[k]))

NoSortPorFecha(arr) == arr
SortPorFecha(arr) == SortFechaFrom(arr, 1, <<>>)

deduplicarPorFecha(arr) ==
  LET mapaDeDatos == MapFrom(arr, 1, <<>>)
      valores == [k \in 1..Len(mapaDeDatos) |-> mapaDeDatos[k].value]
  IN SortPorFecha(valores)

-----------------------------------------------------------------------------
(* Initial values of the groups of variables *)

AnalyzerInit ==
  /\ analizadorMensual = <<>>
  /\ analizadorAnual = <<>>
  /\ fed = <<>>
  /\ resultadosMensuales = <<>>
  /\ resultadosAnuales = <<>>
  /\ nGet = 0

DedupIdle ==
  /\ datos = <<>>
  /\ datosUnicos = <<>>

MainIdle ==
  /\ pc = "idle"
  /\ nRangos = 0
  /\ i = 0
  /\ seenDates = {}
  /\ recordCount = 0
  /\ streamDiario = <<>>
  /\ errores = <<>>
  /\ ultimoEntregado = [dt \in Dates |-> Null]
  /\ archivos = {}

KeyFnIdle ==
  /\ groupByFn = <<>>
  /\ analizador = <<>>

SummerIdle ==
  /\ allRecords = <<>>
  /\ summerResults = <<>>

ApiIdle ==
  /\ apiPc = "idle"
  /\ intento = 0
  /\ historial = <<>>

RangoIdle ==
  /\ fechaInicioTotal = <<>>
  /\ fechaFinTotal = <<>>
  /\ rangos = <<>>

LoteIdle ==
  /\ dailyData = <<>>
  /\ analisisLote = <<>>

ExtraIdle == ApiIdle /\ RangoIdle /\ LoteIdle

-----------------------------------------------------------------------------
(* Analyzer harness: both analyzers are fed the same records, as main.js    *)
(* does (lines 73-74), and getResults may be called at any point.           *)

ProcessRecordStep(record) ==
  /\ analizadorMensual' = ProcessRecord(analizadorMensual, record, "mensual")
  /\ analizadorAnual' = ProcessRecord(analizadorAnual, record, "anual")
  /\ fed' = Append(fed, record)
  /\ resultadosMensuales' = <<>>
  /\ resultadosAnuales' = <<>>
  /\ nGet' = 0
  /\ UNCHANGED <<extraVars, keyFnVars, summerVars, dedupVars, mainVars>>

GetResultsStep ==
  /\ nGet < MaxGet
  /\ resultadosMensuales' = GetResults(analizadorMensual)
  /\ resultadosAnuales' = GetResults(analizadorAnual)
  /\ analizadorMensual' = StateAfterGetResults(analizadorMensual)
  /\ analizadorAnual' = StateAfterGetResults(analizadorAnual)
  /\ nGet' = nGet + 1
  /\ UNCHANGED <<extraVars, keyFnVars, summerVars, fed, dedupVars, mainVars>>

InitAnalyzer == AnalyzerInit /\ ExtraIdle /\ DedupIdle /\ MainIdle /\ KeyFnIdle /\ SummerIdle

NextAnalyzer ==
  \/ \E record \in Records : Len(fed) < MaxFeed /\ ProcessRecordStep(record)
  \/ GetResultsStep

SpecAnalyzer == InitAnalyzer /\ [][NextAnalyzer]_vars

\* The same harness over the records the API delivers, for longer feeds.
NextArrivals ==
  \/ \E record \in ApiRecords : Len(fed) < MaxArrivals /\ ProcessRecordStep(record)
  \/ GetResultsStep

SpecArrivals == InitAnalyzer /\ [][NextArrivals]_vars

-----------------------------------------------------------------------------
(* Generic analyzer harness: createIncrementalAnalyzer(groupByFn) with a    *)
(* groupByFn that gives no key for some dates and the year for the others.  *)

KeyFns ==
  { [dt \in Dates |-> IF dt \in S THEN <<>> ELSE FormatYear(dt)] : S \in SUBSET Dates }

InitKeyFn ==
  /\ AnalyzerInit /\ ExtraIdle /\ DedupIdle /\ MainIdle /\ SummerIdle
  /\ groupByFn \in KeyFns
  /\ analizador = <<>>

ProcessWithKeyFn(record) ==
  /\ Len(fed) < MaxFeed
  /\ analizador' = ProcessRecordWith(analizador, record, groupByFn[record.date])
  /\ fed' = Append(fed, record)
  /\ UNCHANGED <<extraVars, groupByFn, summerVars, dedupVars, mainVars,
                 analizadorMensual, analizadorAnual, resultadosMensuales,
                 resultadosAnuales, nGet>>

NextKeyFn == \E record \in Records : ProcessWithKeyFn(record)

SpecKeyFn == InitKeyFn /\ [][NextKeyFn]_vars

-----------------------------------------------------------------------------
(* getAstronomicalSeason (utils/dataProcessor.js, utils/summerDataParser.js) *)

\* startOfDay(new Date(year, 2, 20)) and the three other season starts
springStart(year) == [y |-> year, m |-> 3, d |-> 20]
summerStart(year) == [y |-> year, m |-> 6, d |-> 21]
autumnStart(year) == [y |-> year, m |-> 9, d |-> 22]
winterStart(year) == [y |-> year, m |-> 12, d |-> 21]

\* date-fns isWithinInterval: start <= date <= end, both ends included
isWithinInterval(date, start, end) ==
  GetTime(date) >= GetTime(start) /\ GetTime(date) <= GetTime(end)

\* dataProcessor.js: the three intervals are tried in this order
getAstronomicalSeason(date) ==
  LET year == date.y
  IN IF isWithinInterval(date, springStart(year), summerStart(year)) THEN "Primavera"
     ELSE IF isWithinInterval(date, summerStart(year), autumnStart(year)) THEN "Verano"
     ELSE IF isWithinInterval(date, autumnStart(year), winterStart(year)) THEN "Otoño"
     ELSE "Invierno"

\* summerDataParser.js: 'Verano' or 'Otra'
getAstronomicalSeasonParser(date) ==
  LET year == date.y
  IN IF isWithinInterval(date, summerStart(year), autumnStart(year)) THEN "Verano"
     ELSE "Otra"

\* Valid dates around every month start and every season start of two years.
SeasonDates ==
  { [y |-> yy, m |-> mm, d |-> dd] :
      yy \in {2019, 2020}, mm \in 1..12, dd \in {1, 19, 20, 21, 22, 23} }

InitSeason ==
  /\ AnalyzerInit /\ ExtraIdle /\ DedupIdle /\ KeyFnIdle
  /\ allRecords \in { << [date |-> dt] >> : dt \in SeasonDates }
  /\ summerResults = <<>>
  /\ pc = "call"
  /\ nRangos = 0
  /\ i = 0
  /\ seenDates = {}
  /\ recordCount = 0
  /\ streamDiario = <<>>
  /\ errores = <<>>
  /\ ultimoEntregado = [dt \in Dates |-> Null]
  /\ archivos = {}

\* normalizarDatos / parseSummerData: every row gets its estacion
ClasificarEstacion ==
  /\ pc = "call"
  /\ summerResults' =
       [k \in 1..Len(allRecords) |->
          [ date |-> allRecords[k].date,
            estacion |-> getAstronomicalSeason(allRecords[k].date),
            estacionParser |-> getAstronomicalSeasonParser(allRecords[k].date) ]]
  /\ pc' = "returned"
  /\ UNCHANGED <<extraVars, analyzerVars, dedupVars, keyFnVars, allRecords,
                 nRangos, i, seenDates, recordCount, streamDiario, errores,
                 ultimoEntregado, archivos>>

NextSeason == ClasificarEstacion

SpecSeason == InitSeason /\ [][NextSeason]_vars

-----------------------------------------------------------------------------
(* Summer analyses: utils/summerAnalysis.js, utils/analysis/longerSummer.js, *)
(* utils/analysis/heatwaves.js, utils/analysis/thresholds.js.                *)
(*                                                                           *)
(* A summer record is [fecha_js, tmed, tmax, tmin] with nullable numbers.    *)
(* A mean is the exact fraction [num, den] with den >= 0; den = 0 is NaN     *)
(* (lodash gives NaN for the mean of an empty array).  The year of a row is  *)
(* kept as a number (the code holds it as an object key in some tables).     *)

TEMPERATURE_THRESHOLD == 30
MOVING_AVERAGE_WINDOW == 7
HEATWAVE_MIN_DAYS == 3
REFERENCE_YEARS == 30
PERCENTILE == 95   \* 0.95, in hundredths

SummerRecord(dt, tmed, tmax, tmin) ==
  [fecha_js |-> dt, tmed |-> tmed, tmax |-> tmax, tmin |-> tmin]

getYear(dt) == dt.y

\* date-fns differenceInDays of two local midnights
differenceInDays(dateLeft, dateRight) == GetTime(dateLeft) - GetTime(dateRight)

\* A nullable number used as an operand of >, >= or +: null becomes 0.
ToNumber(x) == IF IsNull(x) THEN 0 ELSE Val(x)

RECURSIVE Sum(_)
Sum(values) == IF values = <<>> THEN 0 ELSE Head(values) + Sum(Tail(values))

\* _.mean, _.meanBy: sum / length, NaN for an empty array
Mean(values) == [num |-> Sum(values), den |-> Len(values)]

\* a > mean and mean > b for numbers a, b; every comparison with NaN is false
NumberGreaterThanMean(a, mean) == mean.den > 0 /\ a * mean.den > mean.num
MeanAtLeastNumber(mean, b) == mean.den > 0 /\ mean.num >= b * mean.den
MeanGreaterThanNumber(mean, b) == mean.den > 0 /\ mean.num > b * mean.den

\* Math.round of a non-negative mean: halves go up
MathRound(mean) == (2 * mean.num + mean.den) \div (2 * mean.den)

\* records.map(r => r[column]) restricted to the numbers
ValidValues(records, column) ==
  LET valid == SelectSeq(records, LAMBDA r : ~IsNull(r[column]))
  IN [k \in 1..Len(valid) |-> Val(valid[k][column])]

\* robustMean over records with nullable columns: 0 when no value is valid
robustMean(records, column) ==
  LET validValues == ValidValues(records, column)
  IN IF Len(validValues) = 0 THEN [num |-> 0, den |-> 1] ELSE Mean(validValues)

\* robustMean and _.sumBy over rows whose column always holds a number
robustMeanRows(rows, column) ==
  IF Len(rows) = 0 THEN [num |-> 0, den |-> 1]
  ELSE Mean([k \in 1..Len(rows) |-> rows[k][column]])
sumBy(rows, column) == Sum([k \in 1..Len(rows) |-> rows[k][column]])

\* _.groupBy(records, r => getYear(r.fecha_js)): the keys are integer-like,
\* so for...in visits them in ascending order.
YearsOf(records) == { getYear(records[k].fecha_js) : k \in 1..Len(records) }
RECURSIVE AscendingSeq(_)
AscendingSeq(S) ==
  IF S = {} THEN <<>>
  ELSE LET least == CHOOSE x \in S : \A y \in S : x <= y
       IN <<least>> \o AscendingSeq(S \ {least})
RecordsOfYear(records, year) ==
  SelectSeq(records, LAMBDA r : getYear(r.fecha_js) = year)

\* _.uniq: first occurrences, in order
RECURSIVE Uniq(_, _, _)
Uniq(values, k, acc) ==
  IF k > Len(values) THEN acc
  ELSE IF \E j \in 1..Len(acc) : acc[j] = values[k]
       THEN Uniq(values, k + 1, acc)
       ELSE Uniq(values, k + 1, Append(acc, values[k]))

(* calculateLongerSummer *)

\* One point per window of MOVING_AVERAGE_WINDOW records, dated by its last record.
MovingAverages(yearRecords) ==
  [w \in 1..(Len(yearRecords) - MOVING_AVERAGE_WINDOW + 1) |->
     LET window == SubSeq(yearRecords, w, w + MOVING_AVERAGE_WINDOW - 1)
     IN [ date |-> window[MOVING_AVERAGE_WINDOW].fecha_js,
          avg  |-> Mean(ValidValues(window, "tmed")) ]]

\* The body of the loop over the years: no row or one row.
LongerSummerOfYear(year, yearRecords) ==
  IF Len(yearRecords) < MOVING_AVERAGE_WINDOW THEN <<>>
  ELSE LET movingAverages == MovingAverages(yearRecords)
           summerDays == SelectSeq(movingAverages,
                           LAMBDA d : MeanGreaterThanNumber(d.avg, TEMPERATURE_THRESHOLD))
       IN IF Len(summerDays) = 0 THEN <<>>
          ELSE LET firstSummerDay == summerDays[1].date
                   lastSummerDay == summerDays[Len(summerDays)].date
               IN << [ anio |-> year,
                       duracion_verano_dias |->
                         differenceInDays(lastSummerDay, firstSummerDay) + 1 ] >>

RECURSIVE LongerSummerFrom(_, _, _)
LongerSummerFrom(allRecs, years, k) ==
  IF k > Len(years) THEN <<>>
  ELSE LongerSummerOfYear(years[k], RecordsOfYear(allRecs, years[k]))
         \o LongerSummerFrom(allRecs, years, k + 1)

calculateLongerSummer(allRecs) ==
  LongerSummerFrom(allRecs, AscendingSeq(YearsOf(allRecs)), 1)

(* calculateHeatwaveMetrics *)

\* numbers.slice().sort((a, b) => a - b)
RECURSIVE InsertAscending(_, _)
InsertAscending(sorted, x) ==
  IF sorted = <<>> THEN <<x>>
  ELSE IF x < Head(sorted) THEN <<x>> \o sorted
       ELSE <<Head(sorted)>> \o InsertAscending(Tail(sorted), x)
RECURSIVE SortAscendingFrom(_, _, _)
SortAscendingFrom(numbers, k, acc) ==
  IF k > Len(numbers) THEN acc
  ELSE SortAscendingFrom(numbers, k + 1, InsertAscending(acc, numbers[k]))
SortAscending(numbers) == SortAscendingFrom(numbers, 1, <<>>)

\* The index Math.floor(percentile * sorted.length), counted from 0.
PercentileIndexTop(n) == n - 1
PercentileIndex(n) == (PERCENTILE * n) \div 100

getPercentile(numbers) ==
  LET sorted == SortAscending(numbers)
      index == PercentileIndex(Len(sorted))
  IN sorted[index + 1]

\* The non-null tmax values of the reference period.
ReferenceAllYears(summerRecords) == summerRecords
ReferenceRecords(summerRecords) ==
  LET firstYear == getYear(summerRecords[1].fecha_js)
      referenceEndYear == firstYear + REFERENCE_YEARS - 1
  IN SelectSeq(summerRecords, LAMBDA r : getYear(r.fecha_js) <= referenceEndYear)
ReferenceTmax(summerRecords) == ValidValues(ReferenceRecords(summerRecords), "tmax")

\* The scan of lines 95-112: record.tmax > heatwaveThreshold extends the
\* streak (a null tmax is compared as 0); any other record commits a streak
\* of HEATWAVE_MIN_DAYS records or more and empties it.
Commit(allHeatwaves, currentStreak) ==
  IF Len(currentStreak) >= HEATWAVE_MIN_DAYS
  THEN Append(allHeatwaves, currentStreak)
  ELSE allHeatwaves
RECURSIVE ScanHeatwaves(_, _, _, _, _)
ScanHeatwaves(summerRecords, heatwaveThreshold, k, currentStreak, allHeatwaves) ==
  IF k > Len(summerRecords) THEN Commit(allHeatwaves, currentStreak)
  ELSE IF ToNumber(summerRecords[k].tmax) > heatwaveThreshold
       THEN ScanHeatwaves(summerRecords, heatwaveThreshold, k + 1,
                          Append(currentStreak, summerRecords[k]), allHeatwaves)
       ELSE ScanHeatwaves(summerRecords, heatwaveThreshold, k + 1,
                          <<>>, Commit(allHeatwaves, currentStreak))

\* allHeatwaves for a record set with at least one reference tmax value
AllHeatwaves(summerRecords) ==
  ScanHeatwaves(summerRecords, getPercentile(ReferenceTmax(summerRecords)), 1, <<>>, <<>>)

\* One row of the output, for a year and the waves that start in it.
HeatwaveRow(year, yearWaves) ==
  IF Len(yearWaves) > 0
  THEN LET lengths == [k \in 1..Len(yearWaves) |-> Len(yearWaves[k])]
           totalDays == Sum(lengths)
           totalTmax == Sum([k \in 1..Len(yearWaves) |->
                               Sum([j \in 1..Len(yearWaves[k]) |->
                                      ToNumber(yearWaves[k][j].tmax)])])
       IN [ anio |-> year,
            frecuencia |-> Len(yearWaves),
            duracion_media_dias |-> MathRound(Mean(lengths)),
            intensidad_media_tmax |-> [num |-> totalTmax, den |-> totalDays] ]
  ELSE [ anio |-> year,
         frecuencia |-> 0,
         duracion_media_dias |-> 0,
         intensidad_media_tmax |-> [num |-> 0, den |-> 1] ]

calculateHeatwaveMetrics(summerRecords) ==
  IF Len(summerRecords) = 0 THEN <<>>
  ELSE IF Len(ReferenceTmax(summerRecords)) = 0 THEN <<>>
  ELSE LET allHeatwaves == AllHeatwaves(summerRecords)
           allYears == Uniq([k \in 1..Len(summerRecords) |->
                               getYear(summerRecords[k].fecha_js)], 1, <<>>)
       IN IF Len(allHeatwaves) = 0 THEN <<>>
          ELSE [k \in 1..Len(allYears) |->
                  HeatwaveRow(allYears[k],
                    SelectSeq(allHeatwaves,
                              LAMBDA wave : getYear(wave[1].fecha_js) = allYears[k]))]

(* calculateThresholds *)

calculateThresholds(records) ==
  [ nochesTropicales |-> Len(SelectSeq(records, LAMBDA r : ToNumber(r.tmin) >= 20)),
    diasDeHorno      |-> Len(SelectSeq(records, LAMBDA r : ToNumber(r.tmax) >= 40)) ]

(* analyzeSummerData *)

filterSummerRecords(allRecs) ==
  SelectSeq(allRecs, LAMBDA record :
    LET year == getYear(record.fecha_js)
    IN isWithinInterval(record.fecha_js, summerStart(year), autumnStart(year)))

\* yearRecords.filter(r => r[column] > avgPeriodo).length
DiasSuperada(yearRecords, column, avgPeriodo) ==
  Len(SelectSeq(yearRecords,
                LAMBDA r : NumberGreaterThanMean(ToNumber(r[column]), avgPeriodo)))

\* The row pushed to diasSuperadosAnual for one year (line 81).
DiasSuperadosRow(year, yearRecords, summerRecords) ==
  [ anio |-> year,
    dias_tmed_superada |->
      DiasSuperada(yearRecords, "tmed", robustMean(summerRecords, "tmed")),
    dias_tmax_superada |->
      DiasSuperada(yearRecords, "tmax", robustMean(summerRecords, "tmax")),
    dias_tmin_superada |->
      DiasSuperada(yearRecords, "tmin", robustMean(summerRecords, "tmin")) ]

\* The row pushed to umbralesAnual for one year (lines 83-84).
UmbralesRow(year, yearRecords) ==
  [ anio |-> year,
    noches_tropicales |-> calculateThresholds(yearRecords).nochesTropicales,
    dias_de_horno_40c |-> calculateThresholds(yearRecords).diasDeHorno ]

\* getDecade: the template string `${Math.floor(year / 10) * 10}s`
getDecadeByRounding(year) == Digits4(((year + 5) \div 10) * 10) \o <<115>>
getDecade(year) == Digits4((year \div 10) * 10) \o <<115>>

\* _.chain(rows).groupBy(d => getDecade(d.año)): the decade keys in order of
\* first occurrence, and the rows of one decade.
DecadesOf(rows) == Uniq([k \in 1..Len(rows) |-> getDecade(rows[k].anio)], 1, <<>>)
RowsOfDecade(rows, decada) == SelectSeq(rows, LAMBDA d : getDecade(d.anio) = decada)

diasSuperadosDecadas(diasSuperadosAnual) ==
  LET decadas == DecadesOf(diasSuperadosAnual)
  IN [k \in 1..Len(decadas) |->
        LET values == RowsOfDecade(diasSuperadosAnual, decadas[k])
        IN [ decada |-> decadas[k],
             dias_tmed_superada_promedio |-> robustMeanRows(values, "dias_tmed_superada"),
             dias_tmax_superada_promedio |-> robustMeanRows(values, "dias_tmax_superada"),
             dias_tmin_superada_promedio |-> robustMeanRows(values, "dias_tmin_superada") ]]

diasSuperadosDecadasTotales(diasSuperadosAnual) ==
  LET decadas == DecadesOf(diasSuperadosAnual)
  IN [k \in 1..Len(decadas) |->
        LET values == RowsOfDecade(diasSuperadosAnual, decadas[k])
        IN [ decada |-> decadas[k],
             dias_tmed_superada_total |-> sumBy(values, "dias_tmed_superada"),
             dias_tmax_superada_total |-> sumBy(values, "dias_tmax_superada"),
             dias_tmin_superada_total |-> sumBy(values, "dias_tmin_superada") ]]

\* The tables of the returned object that are modelled.  The tables of
\* deviations and of decade means of heatwaves and summer length are left out.
analyzeSummerData(allRecs) ==
  LET summerRecords == filterSummerRecords(allRecs)
      years == AscendingSeq(YearsOf(summerRecords))
      diasSuperadosAnual ==
        [k \in 1..Len(years) |->
           DiasSuperadosRow(years[k], RecordsOfYear(summerRecords, years[k]), summerRecords)]
      umbralesAnual ==
        [k \in 1..Len(years) |->
           UmbralesRow(years[k], RecordsOfYear(summerRecords, years[k]))]
  IN [ promediosPeriodo |-> [ promedio_tmed |-> robustMean(summerRecords, "tmed"),
                              promedio_tmax |-> robustMean(summerRecords, "tmax"),
                              promedio_tmin |-> robustMean(summerRecords, "tmin") ],
       diasSuperados |-> diasSuperadosAnual,
       umbrales |-> umbralesAnual,
       olasDeCalor |-> calculateHeatwaveMetrics(summerRecords),
       duracionVerano |-> calculateLongerSummer(allRecs),
       decadasDiasSuperados |-> diasSuperadosDecadas(diasSuperadosAnual),
       decadasDiasSuperadosTotales |-> diasSuperadosDecadasTotales(diasSuperadosAnual) ]

-----------------------------------------------------------------------------
(* Summer analysis harness: analyzeSummerData applied to date-sorted records *)
(* (parseClimateData sorts them), at most one per date of SummerDateList.    *)

\* Two days outside the summer window, its two end days, and one summer day
\* in each of two later years; 2019 and 2020-2021 fall in two decades.
SummerDateList ==
  << [y |-> 2019, m |-> 6, d |-> 20], [y |-> 2019, m |-> 6, d |-> 21],
     [y |-> 2019, m |-> 9, d |-> 22], [y |-> 2020, m |-> 7, d |-> 1],
     [y |-> 2021, m |-> 7, d |-> 1],  [y |-> 2021, m |-> 9, d |-> 23] >>

SummerReadings ==
  << [tmed |-> Null,    tmax |-> Num(2),  tmin |-> Num(0)],
     [tmed |-> Num(-2), tmax |-> Null,    tmin |-> Num(2)],
     [tmed |-> Num(2),  tmax |-> Num(-2), tmin |-> Null] >>

\* The records of a choice: choice[k] = 0 leaves date k out, otherwise it
\* names the reading of date k.
PickRecords(dateList, readings, choice) ==
  LET present == SelectSeq([k \in 1..Len(dateList) |-> k], LAMBDA k : choice[k] # 0)
  IN [j \in 1..Len(present) |->
        LET rd == readings[choice[present[j]]]
        IN SummerRecord(dateList[present[j]], rd.tmed, rd.tmax, rd.tmin)]

SummerIdleOthers ==
  /\ AnalyzerInit /\ ExtraIdle /\ DedupIdle /\ KeyFnIdle
  /\ nRangos = 0
  /\ i = 0
  /\ seenDates = {}
  /\ recordCount = 0
  /\ streamDiario = <<>>
  /\ errores = <<>>
  /\ ultimoEntregado = [dt \in Dates |-> Null]
  /\ archivos = {}

InitSummer ==
  /\ SummerIdleOthers
  /\ allRecords \in { PickRecords(SummerDateList, SummerReadings, choice) :
                        choice \in [1..Len(SummerDateList) -> 0..Len(SummerReadings)] }
  /\ summerResults = <<>>
  /\ pc = "call"

\* The call without the check of lines 37-39: it returns a result whatever
\* the records are.
AnalizarSinComprobar ==
  /\ pc = "call"
  /\ pc' = "returned"
  /\ summerResults' = analyzeSummerData(allRecords)
  /\ UNCHANGED <<extraVars, analyzerVars, dedupVars, keyFnVars, allRecords,
                 nRangos, i, seenDates, recordCount, streamDiario, errores,
                 ultimoEntregado, archivos>>

\* analyzeSummerData(allRecords): it throws when no record is a summer record.
AnalizarVerano ==
  /\ pc = "call"
  /\ IF Len(filterSummerRecords(allRecords)) = 0
     THEN /\ pc' = "Error"
          /\ summerResults' = summerResults
     ELSE /\ pc' = "returned"
          /\ summerResults' = analyzeSummerData(allRecords)
  /\ UNCHANGED <<extraVars, analyzerVars, dedupVars, keyFnVars, allRecords,
                 nRangos, i, seenDates, recordCount, streamDiario, errores,
                 ultimoEntregado, archivos>>

NextSummer == AnalizarVerano

SpecSummer == InitSummer /\ [][NextSummer]_vars

-----------------------------------------------------------------------------
(* Heatwave harness: calculateHeatwaveMetrics applied to date-sorted summer  *)
(* records.  The records are an optional block of cool days at the start of  *)
(* the first summer (so that the reference period can hold more than twenty  *)
(* values), then at most one record per date of HeatwaveDateList.            *)

\* One day of the first year; three days of a year outside its reference
\* period, the last being the last summer day; the first two summer days of
\* the year after.
HeatwaveDateList ==
  << [y |-> 1990, m |-> 9, d |-> 22], [y |-> 2020, m |-> 7, d |-> 1],
     [y |-> 2020, m |-> 7, d |-> 2],  [y |-> 2020, m |-> 9, d |-> 22],
     [y |-> 2021, m |-> 6, d |-> 21], [y |-> 2021, m |-> 6, d |-> 22] >>

HeatwaveReadings ==
  << [tmed |-> Null, tmax |-> Null,    tmin |-> Null],
     [tmed |-> Null, tmax |-> Num(-2), tmin |-> Null],
     [tmed |-> Null, tmax |-> Num(2),  tmin |-> Null] >>

\* Lengths of the block of cool days: none, or twenty days from 21 June 1990.
CoolBlockLengths == {0, 20}
CoolBlock(n) ==
  [k \in 1..n |-> SummerRecord([y |-> 1990, m |-> 6, d |-> 20 + k], Null, Num(-2), Null)]

InitHeatwave ==
  /\ SummerIdleOthers
  /\ allRecords \in
       { CoolBlock(n) \o PickRecords(HeatwaveDateList, HeatwaveReadings, choice) :
           n \in CoolBlockLengths,
           choice \in [1..Len(HeatwaveDateList) -> 0..Len(HeatwaveReadings)] }
  /\ summerResults = <<>>
  /\ pc = "call"

CalcularOlasDeCalor ==
  /\ pc = "call"
  /\ summerResults' = calculateHeatwaveMetrics(allRecords)
  /\ pc' = "returned"
  /\ UNCHANGED <<extraVars, analyzerVars, dedupVars, keyFnVars, allRecords,
                 nRangos, i, seenDates, recordCount, streamDiario, errores,
                 ultimoEntregado, archivos>>

NextHeatwave == CalcularOlasDeCalor

SpecHeatwave == InitHeatwave /\ [][NextHeatwave]_vars

-----------------------------------------------------------------------------
(* Summer length harness: calculateLongerSummer applied to date-sorted       *)
(* records: up to MaxYearLen days of July 2020 (with a gap of two days after *)
(* the seventh), then nothing or a week of July 2021.                        *)

LongerDate(k) == [y |-> 2020, m |-> 7, d |-> IF k <= 7 THEN k ELSE k + 2]
TmedValues == {Null, Num(27), Num(33)}

YearOfRecords(tmeds) ==
  [k \in 1..Len(tmeds) |-> SummerRecord(LongerDate(k), tmeds[k], Null, Null)]
HotWeek ==
  [k \in 1..7 |-> SummerRecord([y |-> 2021, m |-> 7, d |-> k], Num(33), Null, Null)]

InitLongerSummer ==
  /\ SummerIdleOthers
  /\ allRecords \in
       { YearOfRecords(tmeds) \o other :
           tmeds \in BoundedSeq(TmedValues, MaxYearLen), other \in {<<>>, HotWeek} }
  /\ summerResults = <<>>
  /\ pc = "call"

CalcularDuracionVerano ==
  /\ pc = "call"
  /\ summerResults' = calculateLongerSummer(allRecords)
  /\ pc' = "returned"
  /\ UNCHANGED <<extraVars, analyzerVars, dedupVars, keyFnVars, allRecords,
                 nRangos, i, seenDates, recordCount, streamDiario, errores,
                 ultimoEntregado, archivos>>

NextLongerSummer == CalcularDuracionVerano

SpecLongerSummer == InitLongerSummer /\ [][NextLongerSummer]_vars

-----------------------------------------------------------------------------
(* obtenerDatosParaRango (services/aemetApi.js): the retry loop.  One       *)
(* attempt is the initial request, the reading of its body and the request  *)
(* of the data; any throw inside the try block lands in the catch block.    *)

RETRY_DELAY_MS == 30000
MAX_RETRY_SECONDS == 120
\* One attempt more than the quotient allows.
maxIntentosMasUno == (MAX_RETRY_SECONDS * 1000) \div RETRY_DELAY_MS + 1
maxIntentos == (MAX_RETRY_SECONDS * 1000) \div RETRY_DELAY_MS

\* What can make an attempt throw: the initial fetch rejects, its status is
\* 429, its status is not OK, its body has estado # 200, the data fetch
\* rejects, its status is not OK, its body is not JSON.
Fallos == {"red", "429", "noOk", "estado", "datosRed", "datosNoOk", "datosJson"}

IntentoEv(resultado) == [ev |-> "intento", resultado |-> resultado, ms |-> 0]
SleepEv(ms) == [ev |-> "sleep", resultado |-> "", ms |-> ms]

ApiIdleOthers ==
  /\ AnalyzerInit /\ DedupIdle /\ MainIdle /\ KeyFnIdle /\ SummerIdle
  /\ RangoIdle /\ LoteIdle

\* The call: the loop is entered when 0 < maxIntentos, otherwise line 80.
InitApi ==
  /\ ApiIdleOthers
  /\ intento = 0
  /\ historial = <<>>
  /\ apiPc = IF 0 < maxIntentos THEN "try" ELSE "thrown"

\* Lines 13-62: the try block ends in return (resultado = "ok") or in a throw.
Intentar(resultado) ==
  /\ apiPc = "try"
  /\ historial' = Append(historial, IntentoEv(resultado))
  /\ apiPc' = IF resultado = "ok" THEN "returned" ELSE "catch"
  /\ UNCHANGED <<analyzerVars, dedupVars, mainVars, keyFnVars, summerVars,
                 rangoVars, loteVars, intento>>

\* Lines 63-75: the catch block up to the sleep.
Capturar ==
  /\ apiPc = "catch"
  /\ LET esUltimoIntento == intento = maxIntentos - 1
     IN apiPc' = IF esUltimoIntento THEN "thrown" ELSE "sleep"
  /\ UNCHANGED <<analyzerVars, dedupVars, mainVars, keyFnVars, summerVars,
                 rangoVars, loteVars, intento, historial>>

\* Line 76, then i++ and the loop test of line 12.
Dormir ==
  /\ apiPc = "sleep"
  /\ historial' = Append(historial, SleepEv(RETRY_DELAY_MS))
  /\ intento' = intento + 1
  /\ apiPc' = IF intento + 1 < maxIntentos THEN "try" ELSE "thrown"
  /\ UNCHANGED <<analyzerVars, dedupVars, mainVars, keyFnVars, summerVars,
                 rangoVars, loteVars>>

NextApi ==
  \/ \E resultado \in Fallos \cup {"ok"} : Intentar(resultado)
  \/ Capturar
  \/ Dormir

SpecApi == InitApi /\ [][NextApi]_vars

\* Every awaited promise settles (fetch resolves or rejects, the timer of
\* sleep fires), so a call that can take a step takes it.
SpecApiFair == SpecApi /\ WF_vars(NextApi)

-----------------------------------------------------------------------------
(* _analizarDatosAgrupados (utils/dataAnalyzer.js): the batch analysis of   *)
(* an array of daily records, and a harness that gives the same array to    *)
(* the batch analysis and, record by record, to the incremental analyzers.  *)

MaxDaily == 3     \* length of the array given to the batch analysis

\* compareAscending of lodash sortBy, value < other, on strings of digits
\* and '-': code-unit order, the order localeCompare gives such strings.
StringLess(a, b) == LocaleLess(a, b)

\* findExtreme(data, field, mode): maxBy / minBy with the iteratee
\* d => d[field].  baseExtremum passes over a null value (current != null),
\* seeds the result with the first other value and replaces it on a strict
\* comparison; the value is null and the date is null when no record is left.
findExtreme(data, field, mode) ==
  LET items == [k \in 1..Len(data) |-> [value |-> data[k][field], date |-> data[k].date]]
      arr == FilterNulls(items)
      k == BaseExtremum(arr, mode, 1, 0)
  IN IF k = 0 THEN [value |-> Null, date |-> Null]
     ELSE [value |-> arr[k].value, date |-> Num(FormatDay(arr[k].date))]

\* meanBy(groupData, field), rounded: baseSum adds a null as 0 and the
\* divisor is the length of the group.
RECURSIVE baseSum(_, _, _)
baseSum(data, field, k) ==
  IF k > Len(data) THEN 0 ELSE OrZero(data[k][field]) + baseSum(data, field, k + 1)
meanByRounded(groupData, field) == Round(baseSum(groupData, field, 1), Len(groupData))

\* One row of the analysis (lines 42-84)
AnalysisRow(groupKey, groupData) ==
  [ fecha |-> groupKey,
    avg   |-> [f \in SumFields |-> meanByRounded(groupData, f)],
    max   |-> [f \in MaxFields |-> findExtreme(groupData, f, "max").value],
    d_max |-> [f \in MaxFields |-> findExtreme(groupData, f, "max").date],
    min   |-> [f \in MinFields |-> findExtreme(groupData, f, "min").value],
    d_min |-> [f \in MinFields |-> findExtreme(groupData, f, "min").date] ]

\* sortBy(analysis, 'fecha'): stable, ascending
RECURSIVE InsertAnalysis(_, _)
InsertAnalysis(sorted, row) ==
  IF sorted = <<>> THEN <<row>>
  ELSE IF StringLess(row.fecha, Head(sorted).fecha)
       THEN <<row>> \o sorted
       ELSE <<Head(sorted)>> \o InsertAnalysis(Tail(sorted), row)
RECURSIVE SortAnalysisFrom(_, _, _)
SortAnalysisFrom(analysis, k, acc) ==
  IF k > Len(analysis) THEN acc
  ELSE SortAnalysisFrom(analysis, k + 1, InsertAnalysis(acc, analysis[k]))
sortBy(analysis) == SortAnalysisFrom(analysis, 1, <<>>)

\* groupBy keeps the keys in order of first appearance ('yyyy' keys are
\* integer-like and come out ascending, which the final sort restores anyway).
analizarDatosAgrupados(dailyRecords, kind) ==
  LET groupKeys == Uniq([k \in 1..Len(dailyRecords) |->
                           GroupKey(kind, dailyRecords[k].date)], 1, <<>>)
      groupedData(groupKey) ==
        SelectSeq(dailyRecords, LAMBDA d : GroupKey(kind, d.date) = groupKey)
      analysis == [k \in 1..Len(groupKeys) |->
                     AnalysisRow(groupKeys[k], groupedData(groupKeys[k]))]
  IN sortBy(analysis)

analizarDatosMensuales(dailyRecords) == analizarDatosAgrupados(dailyRecords, "mensual")
analizarDatosAnuales(dailyRecords) == analizarDatosAgrupados(dailyRecords, "anual")

\* processRecord called on every record of an array, in order.
RECURSIVE ProcessAll(_, _, _, _)
ProcessAll(state, records, k, kind) ==
  IF k > Len(records) THEN state
  ELSE ProcessAll(ProcessRecord(state, records[k], kind), records, k + 1, kind)

LoteIdleOthers ==
  /\ DedupIdle /\ KeyFnIdle /\ SummerIdle /\ ApiIdle /\ RangoIdle
  /\ nRangos = 0
  /\ i = 0
  /\ seenDates = {}
  /\ recordCount = 0
  /\ streamDiario = <<>>
  /\ errores = <<>>
  /\ ultimoEntregado = [dt \in Dates |-> Null]
  /\ archivos = {}

InitLote ==
  /\ AnalyzerInit
  /\ LoteIdleOthers
  /\ dailyData \in BoundedSeq(Records, MaxDaily)
  /\ analisisLote = <<>>
  /\ pc = "call"

\* Both analyses of dailyData: the batch functions, and two fresh
\* incremental analyzers fed every record and then asked for their results.
AnalizarLote ==
  /\ pc = "call"
  /\ analisisLote' = [ mensual |-> analizarDatosMensuales(dailyData),
                       anual |-> analizarDatosAnuales(dailyData) ]
  /\ fed' = dailyData
  /\ LET mensual == ProcessAll(<<>>, dailyData, 1, "mensual")
         anual == ProcessAll(<<>>, dailyData, 1, "anual")
     IN /\ resultadosMensuales' = GetResults(mensual)
        /\ resultadosAnuales' = GetResults(anual)
        /\ analizadorMensual' = StateAfterGetResults(mensual)
        /\ analizadorAnual' = StateAfterGetResults(anual)
  /\ nGet' = nGet + 1
  /\ pc' = "returned"
  /\ UNCHANGED <<dedupVars, keyFnVars, summerVars, apiVars, rangoVars, dailyData,
                 nRangos, i, seenDates, recordCount, streamDiario, errores,
                 ultimoEntregado, archivos>>

NextLote == AnalizarLote

SpecLote == InitLote /\ [][NextLote]_vars

-----------------------------------------------------------------------------
(* generarRangosDePeticion (utils/dateUtils.js): the request windows of a   *)
(* period.  Dates are civil dates at midnight, as index.js parses them.     *)

isLeapYear(y) == (y % 4 = 0 /\ y % 100 # 0) \/ y % 400 = 0
getDaysInMonth(y, m) ==
  IF m = 2 THEN (IF isLeapYear(y) THEN 29 ELSE 28)
  ELSE IF m \in {4, 6, 9, 11} THEN 30 ELSE 31

\* date-fns addMonths: the same day of the month `amount` months later, or
\* the last day of that month when it is shorter.
addMonths(date, amount) ==
  LET months == date.y * 12 + (date.m - 1) + amount
      y == months \div 12
      m == (months % 12) + 1
      daysInMonth == getDaysInMonth(y, m)
  IN [y |-> y, m |-> m, d |-> IF date.d >= daysInMonth THEN daysInMonth ELSE date.d]

\* date-fns addDays(date, 1)
addDay(date) ==
  IF date.d < getDaysInMonth(date.y, date.m) THEN [date EXCEPT !.d = date.d + 1]
  ELSE IF date.m < 12 THEN [y |-> date.y, m |-> date.m + 1, d |-> 1]
  ELSE [y |-> date.y + 1, m |-> 1, d |-> 1]

isBefore(date, dateToCompare) == GetTime(date) < GetTime(dateToCompare)

\* date-fns min of two dates
minDate(a, b) == IF GetTime(b) < GetTime(a) THEN b ELSE a

\* The while loop of lines 11-16, from a cursor and the windows pushed so far.
RECURSIVE RangosDesde(_, _, _)
RangosDesde(cursorFecha, fin, acc) ==
  IF isBefore(cursorFecha, fin)
  THEN LET fechaInicioRango == cursorFecha
           fechaFinRango == minDate(addMonths(cursorFecha, 6), fin)
       IN RangosDesde(addDay(fechaFinRango), fin,
                      Append(acc, [start |-> fechaInicioRango, end |-> fechaFinRango]))
  ELSE acc

generarRangosDePeticion(inicio, fin) == RangosDesde(inicio, fin, <<>>)

\* Harness: the start and the end of the period are civil dates; the starts
\* include ends of months, the ends cover two years.
PeriodStarts ==
  { [y |-> 2019, m |-> 8, d |-> 31], [y |-> 2019, m |-> 12, d |-> 31],
    [y |-> 2020, m |-> 1, d |-> 1],  [y |-> 2020, m |-> 2, d |-> 29] }
PeriodEnds ==
  { [y |-> y, m |-> m, d |-> d] :
      y \in {2020, 2021}, m \in 1..12, d \in {1, 2, 15, 28} }

RangoIdleOthers ==
  /\ AnalyzerInit /\ DedupIdle /\ KeyFnIdle /\ SummerIdle /\ ApiIdle /\ LoteIdle
  /\ nRangos = 0
  /\ i = 0
  /\ seenDates = {}
  /\ recordCount = 0
  /\ streamDiario = <<>>
  /\ errores = <<>>
  /\ ultimoEntregado = [dt \in Dates |-> Null]
  /\ archivos = {}

InitRangos ==
  /\ RangoIdleOthers
  /\ fechaInicioTotal \in PeriodStarts
  /\ fechaFinTotal \in PeriodEnds
  /\ rangos = <<>>
  /\ pc = "call"

\* const rangos = generarRangosDePeticion(fechaInicio, fechaFin)  (main.js:30)
GenerarRangos ==
  /\ pc = "call"
  /\ rangos' = generarRangosDePeticion(fechaInicioTotal, fechaFinTotal)
  /\ nRangos' = Len(rangos')
  /\ pc' = "returned"
  /\ UNCHANGED <<analyzerVars, dedupVars, keyFnVars, summerVars, apiVars, loteVars,
                 fechaInicioTotal, fechaFinTotal, i, seenDates, recordCount,
                 streamDiario, errores, ultimoEntregado, archivos>>

NextRangos == GenerarRangos

SpecRangos == InitRangos /\ [][NextRangos]_vars

-----------------------------------------------------------------------------
(* Deduplicator harness: deduplicarPorFecha applied to a bounded array      *)

InitDedup ==
  /\ AnalyzerInit /\ ExtraIdle /\ KeyFnIdle /\ SummerIdle
  /\ datos \in BoundedSeq(Records, MaxDatos)
  /\ datosUnicos = <<>>
  /\ pc = "call"
  /\ nRangos = 0
  /\ i = 0
  /\ seenDates = {}
  /\ recordCount = 0
  /\ streamDiario = <<>>
  /\ errores = <<>>
  /\ ultimoEntregado = [dt \in Dates |-> Null]
  /\ archivos = {}

Deduplicar ==
  /\ pc = "call"
  /\ datosUnicos' = deduplicarPorFecha(datos)
  /\ pc' = "returned"
  /\ UNCHANGED <<extraVars, keyFnVars, summerVars, analyzerVars, datos,
                 nRangos, i, seenDates, recordCount, streamDiario, errores,
                 ultimoEntregado, archivos>>

NextDedup == Deduplicar

SpecDedup == InitDedup /\ [][NextDedup]_vars

-----------------------------------------------------------------------------
(* procesarEstacion (main.js) *)

\* The loop body without the test on seenDates: every record is processed.
ProcesarRegistroSinComprobar(st, registro) ==
  [ seen    |-> st.seen \cup {GetTime(registro.date)},
    count   |-> st.count + 1,
    stream  |-> Append(st.stream, registro),
    mensual |-> ProcessRecord(st.mensual, registro, "mensual"),
    anual   |-> ProcessRecord(st.anual, registro, "anual"),
    fed     |-> Append(st.fed, registro) ]

\* Lines 67-79: the records of one normalized batch, in order.  st is
\* [seen, count, stream, mensual, anual, fed].
ProcesarRegistro(st, registro) ==
  LET timestamp == GetTime(registro.date)
  IN IF timestamp \notin st.seen
     THEN [ seen    |-> st.seen \cup {timestamp},
            count   |-> st.count + 1,
            stream  |-> Append(st.stream, registro),
            mensual |-> ProcessRecord(st.mensual, registro, "mensual"),
            anual   |-> ProcessRecord(st.anual, registro, "anual"),
            fed     |-> Append(st.fed, registro) ]
     ELSE st

RECURSIVE ProcesarBatch(_, _, _)
ProcesarBatch(st, batch, k) ==
  IF k > Len(batch) THEN st
  ELSE ProcesarBatch(ProcesarRegistro(st, batch[k]), batch, k + 1)

\* history: the last record delivered for each date
RECURSIVE Entregar(_, _, _)
Entregar(ult, batch, k) ==
  IF k > Len(batch) THEN ult
  ELSE Entregar([ult EXCEPT ![batch[k].date] = Num(batch[k])], batch, k + 1)

InitMain ==
  /\ AnalyzerInit /\ ExtraIdle /\ DedupIdle /\ KeyFnIdle /\ SummerIdle
  /\ pc = "loop"
  /\ nRangos \in 0..MaxRangos
  /\ i = 0
  /\ seenDates = {}
  /\ recordCount = 0
  /\ streamDiario = <<>>
  /\ errores = <<>>
  /\ ultimoEntregado = [dt \in Dates |-> Null]
  /\ archivos = {}

\* One iteration of the range loop in which obtenerDatosParaRango returns.
RangoOk(datosNormalizados) ==
  /\ pc = "loop"
  /\ i < nRangos
  /\ LET st0 == [ seen |-> seenDates, count |-> recordCount, stream |-> streamDiario,
                  mensual |-> analizadorMensual, anual |-> analizadorAnual, fed |-> fed ]
         st  == IF Len(datosNormalizados) > 0
                THEN ProcesarBatch(st0, datosNormalizados, 1)
                ELSE st0
     IN /\ seenDates' = st.seen
        /\ recordCount' = st.count
        /\ streamDiario' = st.stream
        /\ analizadorMensual' = st.mensual
        /\ analizadorAnual' = st.anual
        /\ fed' = st.fed
  /\ ultimoEntregado' = Entregar(ultimoEntregado, datosNormalizados, 1)
  /\ i' = i + 1
  /\ UNCHANGED <<extraVars, keyFnVars, summerVars, resultadosMensuales,
                 resultadosAnuales, nGet, dedupVars, pc, nRangos, errores,
                 archivos>>

\* One iteration in which obtenerDatosParaRango throws (lines 81-90).
RangoFalla ==
  /\ pc = "loop"
  /\ i < nRangos
  /\ errores' = Append(errores, i)
  /\ i' = i + 1
  /\ UNCHANGED <<extraVars, keyFnVars, summerVars, analyzerVars, dedupVars,
                 pc, nRangos, seenDates, recordCount, streamDiario,
                 ultimoEntregado, archivos>>

\* Lines 95-130 with recordCount > 0: the daily stream is closed, the monthly
\* results are saved, the yearly results are computed, and the call that
\* would save them names columnasAnuales, which no scope declares.
FinalizarConDatos ==
  /\ pc = "loop"
  /\ i = nRangos
  /\ recordCount > 0
  /\ resultadosMensuales' = GetResults(analizadorMensual)
  /\ resultadosAnuales' = GetResults(analizadorAnual)
  /\ analizadorMensual' = StateAfterGetResults(analizadorMensual)
  /\ analizadorAnual' = StateAfterGetResults(analizadorAnual)
  /\ nGet' = nGet + 1
  /\ archivos' = archivos \cup {"diarios", "mensuales"}
  /\ pc' = "ReferenceError"
  /\ UNCHANGED <<extraVars, keyFnVars, summerVars, fed, dedupVars, nRangos,
                 i, seenDates, recordCount, streamDiario, errores,
                 ultimoEntregado>>

\* Lines 95-130 with recordCount = 0: only the daily file exists.
FinalizarSinDatos ==
  /\ pc = "loop"
  /\ i = nRangos
  /\ recordCount = 0
  /\ archivos' = archivos \cup {"diarios"}
  /\ pc' = "done"
  /\ UNCHANGED <<extraVars, keyFnVars, summerVars, analyzerVars, dedupVars,
                 nRangos, i, seenDates, recordCount, streamDiario, errores,
                 ultimoEntregado>>

Init == InitMain

Next ==
  \/ \E batch \in BoundedSeq(ApiRecords, MaxBatch) : RangoOk(batch)
  \/ RangoFalla
  \/ FinalizarConDatos
  \/ FinalizarSinDatos

Spec == Init /\ [][Next]_vars

-----------------------------------------------------------------------------
(* Reference notions used by the properties *)

Kinds == {"mensual", "anual"}
StateOf(kind) == IF kind = "mensual" THEN analizadorMensual ELSE analizadorAnual
ResultsOf(kind) == IF kind = "mensual" THEN resultadosMensuales ELSE resultadosAnuales

\* The records of a feed that belong to a group, in feed order.
GroupFeed(feed, kind, key) == SelectSeq(feed, LAMBDA r : GroupKey(kind, r.date) = key)

\* The records of a sequence whose field f is observed (non-null).
Observed(recs, f) == SelectSeq(recs, LAMBDA r : ~IsNull(r[f]))

RECURSIVE SumOf(_, _)
SumOf(recs, f) == IF recs = <<>> THEN 0 ELSE Val(Head(recs)[f]) + SumOf(Tail(recs), f)

\* Greatest and least observed value of a field, null when there is none.
Greatest(recs, f) ==
  LET obs == Observed(recs, f)
  IN IF obs = <<>> THEN Null
     ELSE Num(CHOOSE v \in {Val(obs[k][f]) : k \in 1..Len(obs)} :
                \A k \in 1..Len(obs) : Val(obs[k][f]) <= v)
Least(recs, f) ==
  LET obs == Observed(recs, f)
  IN IF obs = <<>> THEN Null
     ELSE Num(CHOOSE v \in {Val(obs[k][f]) : k \in 1..Len(obs)} :
                \A k \in 1..Len(obs) : Val(obs[k][f]) >= v)

\* Date of the first record of a sequence whose field f has the value x.
FirstDateWith(recs, f, x) ==
  LET k == CHOOSE n \in 1..Len(recs) :
             recs[n][f] = x /\ \A j \in 1..(n - 1) : recs[j][f] # x
  IN recs[k].date

\* An analyzer fed a whole sequence from its initial state.
RECURSIVE FeedAll(_, _, _, _)
FeedAll(state, feed, k, kind) ==
  IF k > Len(feed) THEN state
  ELSE FeedAll(ProcessRecord(state, feed[k], kind), feed, k + 1, kind)

\* The rearrangements of a sequence.
Rearrangements(seq) ==
  IF Len(seq) < 2 THEN {seq}
  ELSE { [k \in 1..Len(seq) |-> seq[p[k]]] : p \in Permutations(1..Len(seq)) }

HasNonNull(r) == \E f \in Fields : ~IsNull(r[f])

\* The dates of a sequence of records, and ascending order without repeats.
DatesOf(recs) == { recs[k].date : k \in 1..Len(recs) }
StrictlyAscending(recs) ==
  \A k \in 1..(Len(recs) - 1) : FechaTime(recs[k]) < FechaTime(recs[k + 1])

\* Two records of one group carry the same non-null value of a field and
\* that value is the group's maximum or minimum of the field.
TiesOnExtreme(feed, kind) ==
  \E a, b \in 1..Len(feed) :
    /\ a < b
    /\ GroupKey(kind, feed[a].date) = GroupKey(kind, feed[b].date)
    /\ \E f \in Fields :
         LET recs == GroupFeed(feed, kind, GroupKey(kind, feed[a].date))
         IN /\ ~IsNull(feed[a][f])
            /\ feed[a][f] = feed[b][f]
            /\ feed[a][f] \in {Greatest(recs, f), Least(recs, f)}

\* The group keys processRecord has seen.
KeysFed(kind) == { GroupKey(kind, fed[k].date) : k \in 1..Len(fed) }

\* The sum of the counts of the buckets of a state Map.
RECURSIVE SumCounts(_, _)
SumCounts(state, k) ==
  IF k > Len(state) THEN 0 ELSE state[k].g.count + SumCounts(state, k + 1)

\* Summer analysis: the records of the summer window (21 June to 22 September,
\* both included), the observed values of a field, and the decade of a year.
InSummerWindow(dt) == dt.m * 100 + dt.d >= 621 /\ dt.m * 100 + dt.d <= 922
SummerOf(recs) == SelectSeq(recs, LAMBDA r : InSummerWindow(r.fecha_js))
SummerYears(recs) == { SummerOf(recs)[k].fecha_js.y : k \in 1..Len(SummerOf(recs)) }
SummerFields == {"tmed", "tmax", "tmin"}

\* v is strictly above the mean of the observed values of field f in recs.
AboveBaseline(v, recs, f) ==
  LET obs == Observed(recs, f)
  IN IF obs = <<>> THEN v > 0 ELSE v * Len(obs) > SumOf(obs, f)

\* Number of records of year yy in recs whose field f is observed and above
\* the baseline taken over all of recs.
DaysAbove(recs, yy, f) ==
  Cardinality({ k \in 1..Len(recs) :
                  /\ recs[k].fecha_js.y = yy
                  /\ ~IsNull(recs[k][f])
                  /\ AboveBaseline(Val(recs[k][f]), recs, f) })

DiasField(row, f) ==
  CASE f = "tmed" -> row.dias_tmed_superada
    [] f = "tmax" -> row.dias_tmax_superada
    [] f = "tmin" -> row.dias_tmin_superada

\* Decade of a year, its label, and the sum of a yearly count over the rows
\* of one decade (or of all rows).
DecadeStart(yy) == yy - (yy % 10)
DecadeLabel(start) == Digits4(start) \o <<115>>
RECURSIVE YearlySum(_, _, _, _)
YearlySum(rows, starts, f, k) ==
  IF k > Len(rows) THEN 0
  ELSE (IF DecadeStart(rows[k].anio) \in starts THEN DiasField(rows[k], f) ELSE 0)
         + YearlySum(rows, starts, f, k + 1)
YearsInDecade(rows, start) ==
  Cardinality({ k \in 1..Len(rows) : DecadeStart(rows[k].anio) = start })
TotalField(row, f) ==
  CASE f = "tmed" -> row.dias_tmed_superada_total
    [] f = "tmax" -> row.dias_tmax_superada_total
    [] f = "tmin" -> row.dias_tmin_superada_total
PromedioField(row, f) ==
  CASE f = "tmed" -> row.dias_tmed_superada_promedio
    [] f = "tmax" -> row.dias_tmax_superada_promedio
    [] f = "tmin" -> row.dias_tmin_superada_promedio
RECURSIVE TotalsSum(_, _, _)
TotalsSum(rows, f, k) ==
  IF k > Len(rows) THEN 0 ELSE TotalField(rows[k], f) + TotalsSum(rows, f, k + 1)

\* Heatwaves: the positions of the records that hold a tmax value and lie in
\* the reference period (the first record's year and the 29 years after it).
ReferencePositions(recs) ==
  { k \in 1..Len(recs) :
      /\ ~IsNull(recs[k].tmax)
      /\ recs[k].fecha_js.y <= recs[1].fecha_js.y + 29 }
ObservedTmaxPositions(recs) == { k \in 1..Len(recs) : ~IsNull(recs[k].tmax) }
SpanInYears(recs) ==
  LET yrs == { recs[k].fecha_js.y : k \in 1..Len(recs) }
  IN (CHOOSE a \in yrs : \A b \in yrs : a >= b) - (CHOOSE a \in yrs : \A b \in yrs : a <= b) + 1

\* A record qualifies when it holds a tmax value strictly above the threshold.
\* The maximal runs of qualifying records of length three or more, as pairs
\* of first and last position.
Qualifies(recs, k, threshold) ==
  ~IsNull(recs[k].tmax) /\ Val(recs[k].tmax) > threshold
MaximalRuns(recs, threshold) ==
  { run \in (1..Len(recs)) \X (1..Len(recs)) :
      /\ run[2] - run[1] + 1 >= 3
      /\ \A k \in run[1]..run[2] : Qualifies(recs, k, threshold)
      /\ run[1] = 1 \/ ~Qualifies(recs, run[1] - 1, threshold)
      /\ run[2] = Len(recs) \/ ~Qualifies(recs, run[2] + 1, threshold) }
HasNullTmax(recs) == \E k \in 1..Len(recs) : IsNull(recs[k].tmax)

\* Summer length: the records of a year, and the positions j of that year's
\* records at which the mean of the observed tmed of records j-6..j is above 30.
OfYear(recs, yy) == SelectSeq(recs, LAMBDA r : r.fecha_js.y = yy)
WarmPoints(yearRecs) ==
  { j \in 7..Len(yearRecs) :
      LET obs == Observed(SubSeq(yearRecs, j - 6, j), "tmed")
      IN obs # <<>> /\ SumOf(obs, "tmed") > 30 * Len(obs) }
Highest(S) == CHOOSE a \in S : \A b \in S : a >= b
Lowest(S) == CHOOSE a \in S : \A b \in S : a <= b
WarmYears(recs) ==
  { yy \in { recs[k].fecha_js.y : k \in 1..Len(recs) } : WarmPoints(OfYear(recs, yy)) # {} }

\* Retry loop: the attempts of a history, in order.
Intentos(h) == SelectSeq(h, LAMBDA e : e.ev = "intento")

\* Range loop: how many records of a sequence carry the timestamp t, and the
\* sum of the counts of the monthly buckets of one year.
TimesIn(recs, t) == Cardinality({ k \in 1..Len(recs) : GetTime(recs[k].date) = t })
RECURSIVE MonthlyCountOfYear(_, _, _)
MonthlyCountOfYear(state, yearKey, k) ==
  IF k > Len(state) THEN 0
  ELSE (IF SubSeq(state[k].key, 1, 4) = yearKey THEN state[k].g.count ELSE 0)
         + MonthlyCountOfYear(state, yearKey, k + 1)

-----------------------------------------------------------------------------
(* C1.  After procesarEstacion has consumed a sequence of batches, the      *)
(* record held for a date in the daily output and passed to the monthly and *)
(* yearly aggregates is the record delivered last for that date             *)
(* (last-write-wins).  The code keeps the first one: seenDates skips every  *)
(* later record of a date already seen.                                     *)
C1_LastWriteWins ==
  /\ \A k \in 1..Len(streamDiario) :
       Num(streamDiario[k]) = ultimoEntregado[streamDiario[k].date]
  /\ \A k \in 1..Len(fed) : Num(fed[k]) = ultimoEntregado[fed[k].date]
  /\ analizadorMensual = FeedAll(<<>>, fed, 1, "mensual")
  /\ analizadorAnual = FeedAll(<<>>, fed, 1, "anual")

-----------------------------------------------------------------------------
-----------------------------------------------------------------------------
(* C3.  For every group and averaged field, the average getResults reports  *)
(* is the sum of the field's non-null values divided by the number of the   *)
(* group's records in which the field is non-null, and the reported maximum *)
(* ignores the null values.  The code divides by the number of all records  *)
(* of the group.                                                            *)
C3_AverageOverObserved ==
  nGet > 0 =>
    \A kind \in Kinds :
      \A k \in 1..Len(ResultsOf(kind)) :
        LET row  == ResultsOf(kind)[k]
            recs == GroupFeed(fed, kind, row.fecha)
        IN \A f \in SumFields :
             /\ Len(Observed(recs, f)) > 0 =>
                  row.avg[f] = Round(SumOf(Observed(recs, f), f), Len(Observed(recs, f)))
             /\ row.max[f] = Greatest(recs, f)

-----------------------------------------------------------------------------
(* C4.  When no record of a group has a non-null value for a field, the     *)
(* field's average is reported as null ("no data"), never as 0.  The code   *)
(* reports round(0 / count) = 0.                                            *)
C4_NoDataAverageIsNull ==
  nGet > 0 =>
    \A kind \in Kinds :
      \A k \in 1..Len(ResultsOf(kind)) :
        LET row  == ResultsOf(kind)[k]
            recs == GroupFeed(fed, kind, row.fecha)
        IN \A f \in SumFields :
             Len(Observed(recs, f)) = 0 => row.avg[f] = Null

-----------------------------------------------------------------------------
(* C5.  For a set of records in which no two records of a group tie on a    *)
(* field's extreme value, every feeding order gives the same getResults     *)
(* output.  The code reports, for a field that is null in every record of a *)
(* group, the date of the record fed first.                                 *)
C5_OrderIndependent ==
  \A kind \in Kinds :
    ~TiesOnExtreme(fed, kind) =>
      \A p \in Rearrangements(fed) :
        GetResults(FeedAll(<<>>, p, 1, kind)) = GetResults(StateOf(kind))

-----------------------------------------------------------------------------
(* C6.  After any sequence of processRecord calls, the stored running       *)
(* maximum (minimum) of every group and tracked field is the greatest       *)
(* (least) non-null value of the field among the group's records fed so     *)
(* far, null when there is none, wherever the null records are in the feed. *)
C6_RunningExtremes ==
  \A kind \in Kinds :
    \A k \in 1..Len(StateOf(kind)) :
      LET entry == StateOf(kind)[k]
          recs  == GroupFeed(fed, kind, entry.key)
      IN /\ \A f \in MaxFields : entry.g.max[f].value = Greatest(recs, f)
         /\ \A f \in MinFields : entry.g.min[f].value = Least(recs, f)

\* One year fed 0, null, 2 on tmed: the null in the middle changed nothing
\* and the maximum then rose from 0 to 2 while the minimum stayed 0.
C6_Witness ==
  /\ Len(fed) = 3
  /\ \A k \in 1..3 : fed[k].date.y = 2020
  /\ fed[1].tmed = Num(0) /\ IsNull(fed[2].tmed) /\ fed[3].tmed = Num(2)
  /\ Len(analizadorAnual) = 1
  /\ analizadorAnual[1].g.max["tmed"].value = Num(2)
  /\ analizadorAnual[1].g.min["tmed"].value = Num(0)

-----------------------------------------------------------------------------
(* C7.  When several records of a group carry the value that is the group's *)
(* maximum (minimum) of a field, the date getResults reports with the       *)
(* extreme is the date of the one fed first.                                *)
C7_TiesKeepFirstSeen ==
  nGet > 0 =>
    \A kind \in Kinds :
      \A k \in 1..Len(ResultsOf(kind)) :
        LET row  == ResultsOf(kind)[k]
            recs == GroupFeed(fed, kind, row.fecha)
        IN /\ \A f \in MaxFields :
                ~IsNull(row.max[f]) =>
                  row.d_max[f] = Num(FormatDay(FirstDateWith(recs, f, row.max[f])))
           /\ \A f \in MinFields :
                ~IsNull(row.min[f]) =>
                  row.d_min[f] = Num(FormatDay(FirstDateWith(recs, f, row.min[f])))

\* Two records of 2020 with different dates tie on the maximum of tmed, and
\* the yearly results carry the date of the first.
C7_Witness ==
  /\ nGet > 0
  /\ Len(fed) >= 2
  /\ fed[1].date.y = 2020 /\ fed[2].date.y = 2020
  /\ fed[1].date # fed[2].date
  /\ fed[1].tmed = Num(2) /\ fed[2].tmed = Num(2)
  /\ \E k \in 1..Len(resultadosAnuales) :
       /\ resultadosAnuales[k].max["tmed"] = Num(2)
       /\ resultadosAnuales[k].d_max["tmed"] = Num(FormatDay(fed[1].date))

-----------------------------------------------------------------------------
(* C8.  getResults returns one entry per distinct group key seen by         *)
(* processRecord, sorted ascending by key, each entry merging every record  *)
(* fed for its key.                                                         *)
C8_OneSortedEntryPerGroup ==
  nGet > 0 =>
    \A kind \in Kinds :
      LET res == ResultsOf(kind)
      IN /\ { res[k].fecha : k \in 1..Len(res) } = KeysFed(kind)
         /\ Len(res) = Cardinality(KeysFed(kind))
         /\ \A k \in 1..(Len(res) - 1) : LocaleLess(res[k].fecha, res[k + 1].fecha)
         /\ \A k \in 1..Len(res) :
              LET recs == GroupFeed(fed, kind, res[k].fecha)
                  n == MapIndex(StateOf(kind), res[k].fecha, 1)
              IN /\ n > 0
                 /\ StateOf(kind)[n].g.count = Len(recs)
                 /\ \A f \in SumFields :
                      StateOf(kind)[n].g.sum[f] = SumOf(Observed(recs, f), f)
                 /\ \A f \in MaxFields : res[k].max[f] = Greatest(recs, f)
                 /\ \A f \in MinFields : res[k].min[f] = Least(recs, f)

\* The yearly analyzer fed 2020, 2019, 2020, 2020 returns "2019" then "2020".
C8_Witness ==
  /\ nGet > 0
  /\ Len(fed) = 4
  /\ fed[1].date.y = 2020 /\ fed[2].date.y = 2019
  /\ fed[3].date.y = 2020 /\ fed[4].date.y = 2020
  /\ Len(resultadosAnuales) = 2
  /\ resultadosAnuales[1].fecha = <<50, 48, 49, 57>>
  /\ resultadosAnuales[2].fecha = <<50, 48, 50, 48>>
  /\ analizadorAnual[1].key = <<50, 48, 50, 48>>

-----------------------------------------------------------------------------
(* C9.  getResults is read-only: a call leaves the state of the analyzer    *)
(* unchanged, a call that follows another returns the same output, and the  *)
(* state stays the one the processRecord calls alone produce.               *)
C9_GetResultsReadOnly ==
  [][ /\ nGet' = nGet + 1 =>
           /\ analizadorMensual' = analizadorMensual
           /\ analizadorAnual' = analizadorAnual
           /\ nGet > 0 => /\ resultadosMensuales' = resultadosMensuales
                          /\ resultadosAnuales' = resultadosAnuales
      /\ analizadorMensual' = FeedAll(<<>>, fed', 1, "mensual")
      /\ analizadorAnual' = FeedAll(<<>>, fed', 1, "anual") ]_vars

\* getResults has been called twice in a row on an analyzer whose insertion
\* order differs from the sorted order.
C9_Witness ==
  /\ nGet = 2
  /\ Len(analizadorAnual) = 2
  /\ LocaleLess(analizadorAnual[2].key, analizadorAnual[1].key)
  /\ resultadosAnuales = GetResults(analizadorAnual)

-----------------------------------------------------------------------------
(* C10.  For the monthly and the yearly analyzer fed the same records,      *)
(* every record is in exactly one bucket of each analyzer and the sum of    *)
(* the buckets' counts is the number of records that have at least one      *)
(* non-null tracked field.  The code counts every record, also one whose    *)
(* fields are all null.                                                     *)
C10_CountsOnlyRecordsWithData ==
  \A kind \in Kinds :
    /\ \A n \in 1..Len(fed) :
         Cardinality({ k \in 1..Len(StateOf(kind)) :
                         StateOf(kind)[k].key = GroupKey(kind, fed[n].date) }) = 1
    /\ SumCounts(StateOf(kind), 1) = Len(SelectSeq(fed, HasNonNull))

-----------------------------------------------------------------------------
(* C11.  Duplicate delivery is harmless to the aggregator: when the record  *)
(* fed last had already been fed before, getResults() gives exactly what it *)
(* gives for the feed without that second delivery (counts, averages and    *)
(* extremes alike), for the monthly and for the yearly analyzer.            *)
C11_DuplicateDeliveryIdempotent ==
  \A kind \in Kinds :
    (/\ Len(fed) >= 2
     /\ \E j \in 1..(Len(fed) - 1) : fed[j] = fed[Len(fed)])
    => GetResults(StateOf(kind))
         = GetResults(FeedAll(<<>>, SubSeq(fed, 1, Len(fed) - 1), 1, kind))

-----------------------------------------------------------------------------
(* C12.  A record for which the grouping-key function yields no key is      *)
(* ignored by processRecord: the step that feeds it leaves the state Map    *)
(* exactly as it was (no group is created, no count, sum or extreme of an   *)
(* existing group changes), and no group is ever stored under an empty key. *)
C12_NoKeyRecordIgnored ==
  [][ /\ (/\ Len(fed') = Len(fed) + 1
          /\ groupByFn[fed'[Len(fed')].date] = <<>>)
         => analizador' = analizador
      /\ \A k \in 1..Len(analizador') : analizador'[k].key # <<>> ]_vars

\* A record with data and no key has been fed to an analyzer that holds a group.
C12_Witness ==
  /\ Len(fed) >= 2
  /\ groupByFn[fed[Len(fed)].date] = <<>>
  /\ HasNonNull(fed[Len(fed)])
  /\ Len(analizador) = 1
  /\ analizador[1].g.count = Len(fed) - 1

-----------------------------------------------------------------------------
(* C13.  getAstronomicalSeason gives every valid date the season whose      *)
(* start day is the latest one not after it: from March 20 it is Primavera, *)
(* from June 21 Verano, from September 22 Otoño, from December 21 (and      *)
(* before March 20) Invierno; a start day belongs to the season it starts.  *)
C13_StartDayOpensItsSeason ==
  pc = "returned" =>
    \A k \in 1..Len(summerResults) :
      LET md == summerResults[k].date.m * 100 + summerResults[k].date.d
      IN summerResults[k].estacion =
           IF md >= 320 /\ md < 621 THEN "Primavera"
           ELSE IF md >= 621 /\ md < 922 THEN "Verano"
           ELSE IF md >= 922 /\ md < 1221 THEN "Otoño"
           ELSE "Invierno"

-----------------------------------------------------------------------------
(* C14.  In the result of analyzeSummerData every year with summer records  *)
(* has exactly one exceedance row, and for each of tmed, tmax and tmin its  *)
(* count is the number of that year's summer records whose value of the     *)
(* field is strictly greater than the mean of the field over the summer     *)
(* records of all years; a value equal to that mean is not counted.         *)
C14_ExceedanceAgainstPeriodBaseline ==
  pc = "returned" =>
    LET summer == SummerOf(allRecords)
        rows == summerResults.diasSuperados
    IN /\ { rows[k].anio : k \in 1..Len(rows) } = SummerYears(allRecords)
       /\ Len(rows) = Cardinality(SummerYears(allRecords))
       /\ \A k \in 1..Len(rows) : \A f \in SummerFields :
            DiasField(rows[k], f) = DaysAbove(summer, rows[k].anio, f)

\* The same statement restricted to inputs whose summer records have no
\* negative period mean of any field.
ExceedanceHoldsForNonNegativeBaselines ==
  (pc = "returned"
     /\ \A f \in SummerFields : SumOf(Observed(SummerOf(allRecords), f), f) >= 0)
  => LET summer == SummerOf(allRecords)
         rows == summerResults.diasSuperados
     IN \A k \in 1..Len(rows) : \A f \in SummerFields :
          DiasField(rows[k], f) = DaysAbove(summer, rows[k].anio, f)

-----------------------------------------------------------------------------
(* C15.  The decade tables of analyzeSummerData are a regrouping of the     *)
(* yearly exceedance rows by floor(year / 10) * 10: there is one row per    *)
(* decade that has a yearly row; its total is the sum of the yearly counts  *)
(* of exactly that decade's years, its average is that sum divided by the   *)
(* number of those years, and the decade totals add up to the sum of all    *)
(* yearly counts.                                                           *)
C15_DecadeRollupsFromYearlyRows ==
  pc = "returned" =>
    LET yearly == summerResults.diasSuperados
        totales == summerResults.decadasDiasSuperadosTotales
        promedios == summerResults.decadasDiasSuperados
        starts == { DecadeStart(yearly[k].anio) : k \in 1..Len(yearly) }
    IN /\ Len(totales) = Cardinality(starts)
       /\ Len(promedios) = Cardinality(starts)
       /\ \A start \in starts : \E k \in 1..Len(totales) :
            /\ totales[k].decada = DecadeLabel(start)
            /\ promedios[k].decada = DecadeLabel(start)
            /\ \A f \in SummerFields :
                 /\ TotalField(totales[k], f) = YearlySum(yearly, {start}, f, 1)
                 /\ PromedioField(promedios[k], f).den > 0
                 /\ PromedioField(promedios[k], f).num * YearsInDecade(yearly, start)
                      = YearlySum(yearly, {start}, f, 1) * PromedioField(promedios[k], f).den
       /\ \A f \in SummerFields :
            TotalsSum(totales, f, 1) = YearlySum(yearly, starts, f, 1)

\* Two decades are reported, and one of them sums two years with different counts.
C15_Witness ==
  /\ pc = "returned"
  /\ Len(summerResults.decadasDiasSuperadosTotales) = 2
  /\ Len(summerResults.diasSuperados) = 3
  /\ summerResults.diasSuperados[2].dias_tmin_superada
       # summerResults.diasSuperados[3].dias_tmin_superada
  /\ summerResults.diasSuperados[1].dias_tmin_superada > 0
  /\ summerResults.decadasDiasSuperadosTotales[2].dias_tmin_superada_total = 1

-----------------------------------------------------------------------------
(* C16.  With N >= 1 non-null tmax values among the summer records whose    *)
(* year is at most 29 after the first record's year, the heatwave threshold *)
(* is the value at index floor(0.95 * N) of their ascending order: the      *)
(* index is below N, the threshold is one of the values, at most that many  *)
(* values lie strictly below it and more than that many lie at or below it. *)
(* When the data span fewer than 30 years, every record with a tmax value   *)
(* belongs to the reference period.                                         *)
C16_ThresholdIsReferencePercentile ==
  (Len(allRecords) > 0 /\ ReferencePositions(allRecords) # {}) =>
    LET ref == ReferencePositions(allRecords)
        n == Cardinality(ref)
        index == (95 * n) \div 100
        threshold == getPercentile(ReferenceTmax(allRecords))
    IN /\ index >= 0 /\ index < n
       /\ \E k \in ref : Val(allRecords[k].tmax) = threshold
       /\ Cardinality({ k \in ref : Val(allRecords[k].tmax) < threshold }) <= index
       /\ Cardinality({ k \in ref : Val(allRecords[k].tmax) <= threshold }) >= index + 1
       /\ SpanInYears(allRecords) < 30 => ref = ObservedTmaxPositions(allRecords)

\* Twenty-one reference values, so that the index (19) is not the last one
\* and the threshold lies below the greatest reference value, together with
\* a warmer record of a year outside the reference period.
C16_Witness ==
  /\ pc = "returned"
  /\ Cardinality(ReferencePositions(allRecords)) = 21
  /\ getPercentile(ReferenceTmax(allRecords)) = -2
  /\ \E k \in ReferencePositions(allRecords) : Val(allRecords[k].tmax) = 2
  /\ \E k \in 1..Len(allRecords) :
       allRecords[k].fecha_js.y = 2020 /\ allRecords[k].tmax = Num(2)

-----------------------------------------------------------------------------
(* C17.  The heatwave events committed by the scan are exactly the maximal  *)
(* runs of consecutive records, in sequence order, whose tmax is strictly   *)
(* greater than the threshold and whose length is at least 3, in the order  *)
(* of the sequence: shorter runs are discarded and every record that does   *)
(* not qualify ends the current run.                                        *)
C17_EventsAreMaximalRuns ==
  (pc = "returned" /\ Len(allRecords) > 0 /\ ReferencePositions(allRecords) # {}) =>
    LET threshold == getPercentile(ReferenceTmax(allRecords))
        runs == MaximalRuns(allRecords, threshold)
        allHeatwaves == AllHeatwaves(allRecords)
    IN /\ Len(allHeatwaves) = Cardinality(runs)
       /\ { allHeatwaves[k] : k \in 1..Len(allHeatwaves) }
            = { SubSeq(allRecords, run[1], run[2]) : run \in runs }
       /\ \A k \in 1..(Len(allHeatwaves) - 1) :
            GetTime(allHeatwaves[k][1].fecha_js) < GetTime(allHeatwaves[k + 1][1].fecha_js)

\* The same statement for the inputs in which every record holds a tmax value.
EventsAreMaximalRunsWithoutNullTmax ==
  HasNullTmax(allRecords) \/ C17_EventsAreMaximalRuns

-----------------------------------------------------------------------------
(* C18.  For a non-empty summer record set the rows returned by             *)
(* calculateHeatwaveMetrics are one per year present in the input, and the  *)
(* row of a year in which no heatwave event starts has frequency 0, mean    *)
(* duration 0 and mean intensity 0; this includes the inputs for which no   *)
(* year has an event.                                                       *)
C18_OneRowPerInputYear ==
  (pc = "returned" /\ Len(allRecords) > 0) =>
    /\ { summerResults[k].anio : k \in 1..Len(summerResults) }
         = { allRecords[k].fecha_js.y : k \in 1..Len(allRecords) }
    /\ Len(summerResults)
         = Cardinality({ allRecords[k].fecha_js.y : k \in 1..Len(allRecords) })
    /\ \A k \in 1..Len(summerResults) :
         summerResults[k].frecuencia = 0 =>
           /\ summerResults[k].duracion_media_dias = 0
           /\ summerResults[k].intensidad_media_tmax.num = 0

\* The rows cover the input years whenever some heatwave event is committed.
RowsCoverYearsWhenSomeEvent ==
  (pc = "returned" /\ Len(summerResults) > 0) => C18_OneRowPerInputYear

-----------------------------------------------------------------------------
(* C19.  Every committed heatwave event lies within the summer of a single  *)
(* year: all the records of an event have the same year.                    *)
C19_EventsWithinOneSummer ==
  (pc = "returned" /\ Len(allRecords) > 0 /\ ReferencePositions(allRecords) # {}) =>
    \A k \in 1..Len(AllHeatwaves(allRecords)) :
      LET wave == AllHeatwaves(allRecords)[k]
      IN \A j \in 1..Len(wave) : wave[j].fecha_js.y = wave[1].fecha_js.y

-----------------------------------------------------------------------------
(* C20.  For date-sorted input calculateLongerSummer reports exactly the    *)
(* years that have at least 7 records and at least one window of 7          *)
(* consecutive records whose mean tmed (over its non-null values) exceeds   *)
(* 30, one row per such year in ascending order; the duration of a reported *)
(* year is the number of days from the date of the last record of its first *)
(* such window to the date of the last record of its last such window, both *)
(* included, hence at least 1.  Other years have no row.                    *)
C20_SummerLengthPerWarmYear ==
  pc = "returned" =>
    /\ { summerResults[k].anio : k \in 1..Len(summerResults) } = WarmYears(allRecords)
    /\ \A k \in 1..(Len(summerResults) - 1) :
         summerResults[k].anio < summerResults[k + 1].anio
    /\ \A k \in 1..Len(summerResults) :
         LET yearRecs == OfYear(allRecords, summerResults[k].anio)
             warm == WarmPoints(yearRecs)
         IN /\ Len(yearRecs) >= 7
            /\ summerResults[k].duracion_verano_dias
                 = DayNumber(yearRecs[Highest(warm)].fecha_js)
                     - DayNumber(yearRecs[Lowest(warm)].fecha_js) + 1
            /\ summerResults[k].duracion_verano_dias >= 1

\* Two years are reported; in the first the qualifying windows end on the
\* seventh and on the eighth record, which are three days apart, and one of
\* its records has no tmed.
C20_Witness ==
  /\ pc = "returned"
  /\ Len(summerResults) = 2
  /\ summerResults[1].duracion_verano_dias = 4
  /\ \E k \in 1..Len(allRecords) : IsNull(allRecords[k].tmed)

\* A year with seven records or more is left out: no window is warm enough,
\* one of them having a mean of exactly 30.
C20_WitnessAbsent ==
  /\ pc = "returned"
  /\ Len(summerResults) = 0
  /\ Len(allRecords) >= 7
  /\ \E j \in 7..Len(allRecords) :
       LET obs == Observed(SubSeq(allRecords, j - 6, j), "tmed")
       IN obs # <<>> /\ SumOf(obs, "tmed") = 30 * Len(obs)

(* C21.  In calculateLongerSummer every window of 7 consecutive records of  *)
(* a year yields one moving-average point; the average of a window whose    *)
(* tmed values are all null is the number 0, and the average of a window    *)
(* with some null values is the mean over its non-null values only.         *)
C21_EmptyWindowAveragesZero ==
  pc = "returned" =>
    \A yy \in YearsOf(allRecords) :
      LET yearRecs == OfYear(allRecords, yy)
          points == MovingAverages(yearRecs)
      IN Len(yearRecs) >= MOVING_AVERAGE_WINDOW =>
           /\ Len(points) = Len(yearRecs) - MOVING_AVERAGE_WINDOW + 1
           /\ \A w \in 1..Len(points) :
                LET obs == Observed(SubSeq(yearRecs, w, w + MOVING_AVERAGE_WINDOW - 1),
                                    "tmed")
                IN IF obs = <<>>
                   THEN points[w].avg.den > 0 /\ points[w].avg.num = 0
                   ELSE /\ points[w].avg.den > 0
                        /\ points[w].avg.num * Len(obs)
                             = SumOf(obs, "tmed") * points[w].avg.den

(* C22.  analyzeSummerData fails exactly when no input record lies in the   *)
(* summer window, and then leaves no result.  In every other case it        *)
(* returns a result: a period mean with no valid value is the fallback 0,   *)
(* a year with fewer than 7 records has no summer-length row, and without   *)
(* a non-null tmax in the reference period the heatwave table is empty.     *)
C22_OnlyNoSummerDataFails ==
  pc # "call" =>
    /\ pc = "Error" <=> SummerOf(allRecords) = <<>>
    /\ pc = "Error" => summerResults = <<>>
    /\ pc = "returned" =>
         LET summer == SummerOf(allRecords)
             promedios == summerResults.promediosPeriodo
             mean(f) == CASE f = "tmed" -> promedios.promedio_tmed
                          [] f = "tmax" -> promedios.promedio_tmax
                          [] f = "tmin" -> promedios.promedio_tmin
         IN /\ \A f \in SummerFields :
                 /\ mean(f).den > 0
                 /\ Observed(summer, f) = <<>> => mean(f).num = 0
                 /\ Observed(summer, f) # <<>> =>
                      mean(f).num * Len(Observed(summer, f))
                        = SumOf(Observed(summer, f), f) * mean(f).den
            /\ \A k \in 1..Len(summerResults.duracionVerano) :
                 Len(OfYear(allRecords, summerResults.duracionVerano[k].anio))
                   >= MOVING_AVERAGE_WINDOW
            /\ ReferencePositions(summer) = {} => summerResults.olasDeCalor = <<>>

\* The failure: records are given, none of them in the summer window.
C22_Witness ==
  /\ pc = "Error"
  /\ allRecords # <<>>
  /\ summerResults = <<>>

\* A result with fallbacks: no summer record holds a tmax, so its period
\* mean is 0 and the heatwave table is empty; no year has 7 records.
C22_WitnessFallback ==
  /\ pc = "returned"
  /\ Observed(SummerOf(allRecords), "tmax") = <<>>
  /\ summerResults.promediosPeriodo.promedio_tmax.num = 0
  /\ summerResults.olasDeCalor = <<>>
  /\ summerResults.duracionVerano = <<>>

(* C23.  obtenerDatosParaRango always terminates, after at most 4 attempts. *)
(* It returns right after the first attempt that succeeds, and makes no     *)
(* attempt after it.  Every failed attempt before the fourth is followed by *)
(* one wait of RETRY_DELAY_MS and then a new attempt; a failed fourth       *)
(* attempt raises the definitive failure without a wait.                    *)
C23_RetrySafety ==
  LET attempts == Intentos(historial)
      n == Len(historial)
  IN /\ Len(attempts) <= 4
     /\ \A k \in 1..n :
          \* a success is the last event, and the call has returned
          /\ (historial[k].ev = "intento" /\ historial[k].resultado = "ok")
               => (k = n /\ apiPc = "returned")
          \* a wait lasts RETRY_DELAY_MS and follows a failed attempt
          /\ historial[k].ev = "sleep"
               => /\ historial[k].ms = 30000
                  /\ k > 1 /\ historial[k - 1].ev = "intento"
                  /\ historial[k - 1].resultado \in Fallos
          \* a failed attempt that is not the last event is followed by a wait
          \* and then by an attempt
          /\ (historial[k].ev = "intento" /\ historial[k].resultado \in Fallos /\ k < n)
               => /\ historial[k + 1].ev = "sleep"
                  /\ k + 1 < n => historial[k + 2].ev = "intento"
     /\ apiPc = "returned" => (n > 0 /\ historial[n].resultado = "ok")
     /\ apiPc = "thrown" =>
          /\ Len(attempts) = 4
          /\ historial[n].ev = "intento"
          /\ \A k \in 1..4 : attempts[k].resultado \in Fallos
     /\ apiPc \in {"catch", "sleep"} => Len(attempts) = intento + 1
     /\ apiPc = "sleep" => Len(attempts) < 4

C23_RetryTerminates ==
  []C23_RetrySafety /\ <>(apiPc \in {"returned", "thrown"})

\* Four failed attempts of four different kinds, three waits, and the
\* definitive failure.
C23_Witness ==
  /\ apiPc = "thrown"
  /\ Len(historial) = 7
  /\ historial[1].resultado = "429"
  /\ historial[3].resultado = "red"
  /\ historial[5].resultado = "estado"
  /\ historial[7].resultado = "datosNoOk"

\* A return on the third attempt, after two failures and two waits.
C23_WitnessReturn ==
  /\ apiPc = "returned"
  /\ Len(Intentos(historial)) = 3
  /\ Len(historial) = 5

(* C24.  When procesarEstacion has finished for a station with at least one *)
(* record, the daily, the monthly and the yearly CSV file have been written *)
(* and the run has not ended in an error.                                   *)
C24_ThreeFilesWritten ==
  (pc # "loop" /\ recordCount > 0) =>
    /\ pc = "done"
    /\ archivos = {"diarios", "mensuales", "anuales"}

(* C25.  For every array of records the batch analysis and the incremental  *)
(* analyzers fed the same records give the same rows: the same group keys   *)
(* in the same order and, for every column, the same average, the same      *)
(* extreme value and the same extreme date, null fields and all-null groups *)
(* included.                                                                *)
C25_BatchEqualsIncremental ==
  pc = "returned" =>
    /\ analisisLote.mensual = resultadosMensuales
    /\ analisisLote.anual = resultadosAnuales

\* What the two analyses do share: keys, order, averages and extreme values,
\* and the extreme dates of the columns that hold a value.
BatchEqualsIncrementalButNullDates ==
  pc = "returned" =>
    \A pair \in { <<analisisLote.mensual, resultadosMensuales>>,
                  <<analisisLote.anual, resultadosAnuales>> } :
      /\ Len(pair[1]) = Len(pair[2])
      /\ \A k \in 1..Len(pair[1]) :
           LET lote == pair[1][k]
               incremental == pair[2][k]
           IN /\ lote.fecha = incremental.fecha
              /\ lote.avg = incremental.avg
              /\ lote.max = incremental.max
              /\ lote.min = incremental.min
              /\ \A f \in MaxFields :
                   ~IsNull(lote.max[f]) => lote.d_max[f] = incremental.d_max[f]
              /\ \A f \in MinFields :
                   ~IsNull(lote.min[f]) => lote.d_min[f] = incremental.d_min[f]

(* C26.  In every getResults() output, for every group and every tracked    *)
(* extreme (maximum and minimum of each field), the reported date is null   *)
(* exactly when the reported value is null.                                 *)
C26_DateNullIffValueNull ==
  \A results \in {resultadosMensuales, resultadosAnuales} :
    \A k \in 1..Len(results) :
      /\ \A f \in MaxFields : IsNull(results[k].d_max[f]) <=> IsNull(results[k].max[f])
      /\ \A f \in MinFields : IsNull(results[k].d_min[f]) <=> IsNull(results[k].min[f])

\* Number of summer records of year yy that hold a value of field f.
ObservedInYear(recs, yy, f) ==
  Cardinality({ k \in 1..Len(recs) : recs[k].fecha_js.y = yy /\ ~IsNull(recs[k][f]) })

\* No record with a null tmin is a tropical night and none with a null tmax
\* is an extreme-heat day (the thresholds 20 and 40 are fixed).
NullNeverCrossesFixedThresholds ==
  pc = "returned" =>
    \A k \in 1..Len(summerResults.umbrales) :
      LET row == summerResults.umbrales[k]
      IN /\ row.noches_tropicales <= ObservedInYear(SummerOf(allRecords), row.anio, "tmin")
         /\ row.dias_de_horno_40c <= ObservedInYear(SummerOf(allRecords), row.anio, "tmax")

\* No record with a null field is counted in a year's exceedance of the field.
NullNeverExceedsBaseline ==
  pc = "returned" =>
    \A k \in 1..Len(summerResults.diasSuperados) : \A f \in SummerFields :
      DiasField(summerResults.diasSuperados[k], f)
        <= ObservedInYear(SummerOf(allRecords), summerResults.diasSuperados[k].anio, f)

\* No record with a null tmax is a day of a heatwave event: an event is
\* reported only when HEATWAVE_MIN_DAYS summer records or more hold a tmax,
\* and the days of every event have a tmax.
NullNeverQualifiesForHeatwave ==
  pc = "returned" =>
    LET summer == SummerOf(allRecords)
    IN /\ (\E k \in 1..Len(summerResults.olasDeCalor) :
             summerResults.olasDeCalor[k].frecuencia > 0)
            => Cardinality(ObservedTmaxPositions(summer)) >= 3
       /\ ReferencePositions(summer) # {} =>
            \A w \in 1..Len(AllHeatwaves(summer)) :
              \A j \in 1..Len(AllHeatwaves(summer)[w]) :
                ~IsNull(AllHeatwaves(summer)[w][j].tmax)

(* C27.  A record whose field is null never counts as crossing a threshold, *)
(* whatever the threshold (zero and negative ones included): it is neither  *)
(* a tropical night nor an extreme-heat day, it is not counted in a year's  *)
(* exceedance of the field, and it is not a day of a heatwave event.        *)
C27_NullNeverCrossesThreshold ==
  /\ NullNeverCrossesFixedThresholds
  /\ NullNeverExceedsBaseline
  /\ NullNeverQualifiesForHeatwave

(* C28.  At every point of the range loop of procesarEstacion each distinct *)
(* timestamp seen so far has been passed exactly once to the monthly        *)
(* analyzer, exactly once to the yearly analyzer and written exactly once   *)
(* to the daily stream; recordCount is the size of seenDates and the sum of *)
(* the counts of the yearly groups; the count of every yearly group is the  *)
(* sum of the counts of that year's monthly groups.                         *)
C28_EachTimestampProcessedOnce ==
  /\ \A t \in seenDates : TimesIn(fed, t) = 1 /\ TimesIn(streamDiario, t) = 1
  /\ \A k \in 1..Len(fed) : GetTime(fed[k].date) \in seenDates
  /\ streamDiario = fed
  /\ SumCounts(analizadorMensual, 1) = Len(fed)
  /\ SumCounts(analizadorAnual, 1) = Len(fed)
  /\ \A k \in 1..Len(fed) :
       /\ MapIndex(analizadorMensual, FormatYearMonth(fed[k].date), 1) > 0
       /\ MapIndex(analizadorAnual, FormatYear(fed[k].date), 1) > 0
  /\ recordCount = Cardinality(seenDates)
  /\ recordCount = SumCounts(analizadorAnual, 1)
  /\ \A k \in 1..Len(analizadorAnual) :
       analizadorAnual[k].g.count
         = MonthlyCountOfYear(analizadorMensual, analizadorAnual[k].key, 1)

\* Two ranges done: a date was delivered a second time with another reading
\* and skipped, and the year 2020 holds two months.
C28_Witness ==
  /\ pc = "loop"
  /\ i = 2
  /\ recordCount = 2
  /\ \E k \in 1..Len(streamDiario) :
       Num(streamDiario[k]) # ultimoEntregado[streamDiario[k].date]
  /\ Len(analizadorAnual) = 1
  /\ Len(analizadorMensual) = 2

\* A failing range: it is recorded once, the loop moves to the next range,
\* and the aggregates, seenDates, the count and the stream stay as they were.
FailedRangeLeavesAggregates ==
  [][ errores' # errores =>
        /\ errores' = Append(errores, i)
        /\ i' = i + 1
        /\ pc' = "loop"
        /\ UNCHANGED <<analizadorMensual, analizadorAnual, seenDates, recordCount,
                       streamDiario, fed>> ]_vars

\* The ranges are taken once each, in order: i only steps by one up to
\* nRangos, and the failed ranges are recorded in ascending order.
RangesRequestedOnceInOrder ==
  /\ i <= nRangos
  /\ \A k \in 1..Len(errores) : errores[k] < i
  /\ \A k \in 1..(Len(errores) - 1) : errores[k] < errores[k + 1]
  /\ analizadorMensual = FeedAll(<<>>, fed, 1, "mensual")
  /\ analizadorAnual = FeedAll(<<>>, fed, 1, "anual")

\* After a run with failed ranges and some record, the results computed are
\* those of the records of the ranges that succeeded.
ResultsComputedAfterFailures ==
  (pc \notin {"loop", "idle"} /\ errores # <<>> /\ recordCount > 0) =>
    /\ resultadosMensuales = GetResults(FeedAll(<<>>, fed, 1, "mensual"))
    /\ resultadosAnuales = GetResults(FeedAll(<<>>, fed, 1, "anual"))

(* C30.  A range whose request fails definitively does not stop             *)
(* procesarEstacion: the failure is recorded once in errores, the later     *)
(* ranges are still requested once each and in order, the aggregates and    *)
(* seenDates are left as they were, and the run ends with the final         *)
(* analysis (monthly and yearly) produced from the records of the ranges    *)
(* that succeeded.                                                          *)
C30_FailedRangeDoesNotStopRun ==
  /\ RangesRequestedOnceInOrder
  /\ ResultsComputedAfterFailures
  /\ (pc \notin {"loop", "idle"} /\ errores # <<>> /\ recordCount > 0) =>
       /\ pc = "done"
       /\ {"mensuales", "anuales"} \subseteq archivos

\* Request windows: a window is at most 6 months long when its end is not
\* after the day 6 months after its start.
AtMostSixMonths(w) ==
  /\ DayNumber(w.start) <= DayNumber(w.end)
  /\ DayNumber(w.end) <= DayNumber(addMonths(w.start, 6))
Consecutive(ws) ==
  \A k \in 1..(Len(ws) - 1) : DayNumber(ws[k + 1].start) = DayNumber(ws[k].end) + 1

(* C29.  For a period whose start is strictly before its end,               *)
(* generarRangosDePeticion returns consecutive windows that partition the   *)
(* period: the first starts at fechaInicioTotal, each is at most 6 months   *)
(* long, each next one starts the day after the previous one ends, and the  *)
(* last ends at fechaFinTotal.                                              *)
C29_WindowsPartitionPeriod ==
  (pc = "returned" /\ isBefore(fechaInicioTotal, fechaFinTotal)) =>
    /\ Len(rangos) >= 1
    /\ rangos[1].start = fechaInicioTotal
    /\ \A k \in 1..Len(rangos) : AtMostSixMonths(rangos[k])
    /\ Consecutive(rangos)
    /\ rangos[Len(rangos)].end = fechaFinTotal

\* What holds of every period: the windows are as stated, except that the
\* last one may end the day before fechaFinTotal.
WindowsPartitionPeriodButLastDay ==
  (pc = "returned" /\ isBefore(fechaInicioTotal, fechaFinTotal)) =>
    /\ Len(rangos) >= 1
    /\ rangos[1].start = fechaInicioTotal
    /\ \A k \in 1..Len(rangos) : AtMostSixMonths(rangos[k])
    /\ Consecutive(rangos)
    /\ DayNumber(rangos[Len(rangos)].end)
         \in {DayNumber(fechaFinTotal), DayNumber(fechaFinTotal) - 1}

====
